---- MODULE Spec2Model ----
(***************************************************************************)
(* Fatebound: the battle resolution engine of components/BattleArena.tsx.  *)
(* The React state `gameState` is the model state; every setGameState      *)
(* updater is one atomic step.  playCard is asynchronous in the source:    *)
(* it pays the cost in one updater, awaits an animation delay and the      *)
(* commentary service, and applies the card's effects in a second updater; *)
(* the card plays between the two updaters are kept in `pending`.          *)
(***************************************************************************)
EXTENDS Integers, Sequences, FiniteSets, TLC

(* ---------------------------------------------------------------------- *)
(* Bounds of the exploration                                               *)
(* ---------------------------------------------------------------------- *)
\* Last turn number in which the opponent may still hand the turn back.
MaxTurn == 6
\* Largest number of human card plays that may be in flight at once.
MaxPending == 1
\* The human clicks one of the first MaxChoice affordable cards of the hand.
MaxChoice == 1
\* Largest number of playCard and castAbility calls a caller other than the
\* arena's buttons and policy makes in one battle.
MaxCalls == 2
\* Largest health of the human in the decision states the policy is run on.
MaxPolicyHealth == 8

(* ---------------------------------------------------------------------- *)
(* Strings as character sequences (String.prototype.includes/toLowerCase) *)
(* ---------------------------------------------------------------------- *)
includes(s, sub) ==
  \E i \in 1..(Len(s) - Len(sub) + 1) : SubSeq(s, i, i + Len(sub) - 1) = sub

UpperToLower ==
  ("A" :> "a") @@ ("D" :> "d") @@ ("E" :> "e") @@ ("G" :> "g") @@
  ("H" :> "h") @@ ("I" :> "i") @@ ("M" :> "m") @@ ("O" :> "o") @@
  ("R" :> "r") @@ ("S" :> "s") @@ ("T" :> "t") @@ ("W" :> "w")

toLowerCase(s) ==
  [i \in 1..Len(s) |-> IF s[i] \in DOMAIN UpperToLower THEN UpperToLower[s[i]] ELSE s[i]]

(* ---------------------------------------------------------------------- *)
(* Catalog (constants.ts)                                                  *)
(* ---------------------------------------------------------------------- *)
CARDS ==
  ("n1" :> [id |-> "n1", cost |-> 1, type |-> "Attack", value |-> 3,
            description |-> <<"D","e","a","l"," ","3"," ","d","a","m","a","g","e",".">>]) @@
  ("n2" :> [id |-> "n2", cost |-> 2, type |-> "Spell", value |-> 5,
            description |-> <<"G","a","i","n"," ","5"," ","s","h","i","e","l","d",".">>]) @@
  ("n3" :> [id |-> "n3", cost |-> 2, type |-> "Spell", value |-> 4,
            description |-> <<"H","e","a","l"," ","4"," ","h","e","a","l","t","h",".">>]) @@
  ("f1" :> [id |-> "f1", cost |-> 3, type |-> "Spell", value |-> 6,
            description |-> <<"D","e","a","l"," ","6"," ","d","a","m","a","g","e",".">>]) @@
  ("f2" :> [id |-> "f2", cost |-> 5, type |-> "Minion", value |-> 8,
            description |-> <<"S","u","m","m","o","n"," ","a"," ","G","o","l","e","m"," ","(","8"," ","d","m","g",")",".">>]) @@
  ("f3" :> [id |-> "f3", cost |-> 3, type |-> "Weapon", value |-> 5,
            description |-> <<"E","q","u","i","p",":"," ","+","5"," ","A","t","k"," ","p","o","w","e","r",".">>]) @@
  ("i1" :> [id |-> "i1", cost |-> 1, type |-> "Attack", value |-> 2,
            description |-> <<"D","e","a","l"," ","2"," ","d","a","m","a","g","e",".">>]) @@
  ("i2" :> [id |-> "i2", cost |-> 4, type |-> "Spell", value |-> 4,
            description |-> <<"D","e","a","l"," ","4"," ","d","m","g"," ","t","o"," ","a","l","l"," ","e","n","e","m","i","e","s",".">>]) @@
  ("i3" :> [id |-> "i3", cost |-> 3, type |-> "Spell", value |-> 8,
            description |-> <<"G","a","i","n"," ","8"," ","s","h","i","e","l","d",".">>]) @@
  ("t1" :> [id |-> "t1", cost |-> 2, type |-> "Attack", value |-> 4,
            description |-> <<"D","e","a","l"," ","4"," ","d","a","m","a","g","e",".">>]) @@
  ("t2" :> [id |-> "t2", cost |-> 4, type |-> "Minion", value |-> 6,
            description |-> <<"D","e","p","l","o","y"," ","d","r","o","n","e","s"," ","(","6"," ","d","m","g",")",".">>]) @@
  ("t3" :> [id |-> "t3", cost |-> 0, type |-> "Spell", value |-> 2,
            description |-> <<"G","a","i","n"," ","2"," ","M","a","n","a",".">>]) @@
  ("g1" :> [id |-> "g1", cost |-> 2, type |-> "Attack", value |-> 3,
            description |-> <<"D","e","a","l"," ","3"," ","d","a","m","a","g","e",".">>]) @@
  ("g2" :> [id |-> "g2", cost |-> 5, type |-> "Minion", value |-> 7,
            description |-> <<"T","r","a","n","s","f","o","r","m"," ","(","7"," ","d","m","g",")",".">>]) @@
  ("g3" :> [id |-> "g3", cost |-> 3, type |-> "Spell", value |-> 8,
            description |-> <<"H","e","a","l"," ","8"," ","h","e","a","l","t","h",".">>])

CardIds == DOMAIN CARDS

CHAMPIONS ==
  ("c1" :> [id |-> "c1", maxHealth |-> 30,
            ability |-> [name |-> <<"I","n","f","e","r","n","o">>, cost |-> 3]]) @@
  ("c2" :> [id |-> "c2", maxHealth |-> 35,
            ability |-> [name |-> <<"G","l","a","c","i","a","l"," ","W","a","l","l">>, cost |-> 3]]) @@
  ("c3" :> [id |-> "c3", maxHealth |-> 32,
            ability |-> [name |-> <<"O","v","e","r","c","l","o","c","k">>, cost |-> 4]]) @@
  ("c4" :> [id |-> "c4", maxHealth |-> 40,
            ability |-> [name |-> <<"R","e","g","r","o","w","t","h">>, cost |-> 3]])

Users == {"player", "opponent"}

Other(user) == IF user = "player" THEN "opponent" ELSE "player"

Min(a, b) == IF a < b THEN a ELSE b

Max(a, b) == IF a > b THEN a ELSE b

Range(seq) == {seq[i] : i \in 1..Len(seq)}


(* ---------------------------------------------------------------------- *)
(* Battle scenarios: the champion and deck the human confirmed, whether    *)
(* the battle was entered through the online lobby (and then the champion  *)
(* the remote handshake named), the opponent champion and deck the         *)
(* constructor picked, both decks in the order the shuffle of              *)
(* createInitialState left them in.                                        *)
(* ---------------------------------------------------------------------- *)
Scenarios ==
  { [champion |-> "c2",
     playerDeck |-> <<"t3", "n1", "t1", "f3", "t2", "f2", "g2", "i2">>,
     opponentChampion |-> "c1",
     opponentDeck |-> <<"g2", "t1", "n1", "i1", "g1", "t2", "f2", "t3">>,
     isOnline |-> FALSE,
     handshake |-> "none"],
    [champion |-> "c3",
     playerDeck |-> <<"t3", "n1", "t1", "f3", "t2", "f2", "g2", "i2">>,
     opponentChampion |-> "c1",
     opponentDeck |-> <<"f1", "g3", "t2", "n1", "g1", "i1", "f2", "t1">>,
     isOnline |-> TRUE,
     handshake |-> "c4"] }

VARIABLES
  gameState,       \* the GameState held by useState
  pending,         \* card plays whose cost is paid and whose effects are not applied yet
  isAiProcessing,  \* the isAiProcessing flag
  aiPc,            \* where runAiTurn stands: "idle", "loop" or "card"
  phase,           \* "created" (before the mount effect), "battle", "unmounted"
  last,            \* the last step taken: [kind, user, card]
  isOnline,        \* the isOnline prop of the arena
  calls,           \* handler calls made from outside the arena's own buttons and policy
  app,             \* the useState cells of App: view, isOnlineMode, selectedChampion, peer, connection, opponentChampion
  lobby,           \* the useState cells of the mounted OnlineLobby instance, or NoLobby
  peers,           \* the Peer objects created so far, each with its outgoing connection
  timers,          \* pending setTimeout(() => setView('BATTLE')) calls
  sent             \* the messages this client has sent over its connections

appVars == <<app, lobby, peers, timers, sent>>

arenaVars == <<gameState, pending, isAiProcessing, aiPc, phase, isOnline, calls>>

vars == <<gameState, pending, isAiProcessing, aiPc, phase, last, isOnline, calls,
          app, lobby, peers, timers, sent>>

\* The useState cells of a newly mounted OnlineLobby: myId and joinCode say
\* whether the string is non-empty; hostPeer is the Peer the instance's
\* effect created and its cleanup will destroy (0: none).
FreshLobby ==
  [mode |-> "HOST", myId |-> FALSE, joinCode |-> FALSE, status |-> "IDLE",
   error |-> "", hostPeer |-> 0]

\* No OnlineLobby instance is mounted.
NoLobby == [FreshLobby EXCEPT !.mode = "none"]

\* The handshake message setupConnection sends.
Handshake(champ) == [type |-> "HANDSHAKE", champion |-> champ]

\* A Peer object: who created it, how far it got, its outgoing connection,
\* whether the OnlineLobby instance whose closures are its handlers is still
\* mounted, the selectedChampion those closures hold, and whether the remote
\* handshake was delivered on its connection.
NewPeer(role, champ) ==
  [role |-> role, state |-> "new", conn |-> "none", live |-> TRUE,
   champion |-> champ, heard |-> FALSE]

\* App, lobby and network as they stand when the battle of a scenario is
\* entered: from the deck builder, or from the lobby over an open connection
\* on which both handshakes went through.
AppInBattle(sc) ==
  /\ app = [view |-> "BATTLE",
            isOnlineMode |-> sc.isOnline,
            selectedChampion |-> sc.champion,
            peer |-> IF sc.isOnline THEN 1 ELSE 0,
            connection |-> IF sc.isOnline THEN 1 ELSE 0,
            opponentChampion |-> sc.handshake]
  /\ lobby = NoLobby
  /\ peers = IF sc.isOnline
             THEN <<[NewPeer("join", sc.champion) EXCEPT
                       !.state = "open", !.conn = "open", !.live = FALSE, !.heard = TRUE]>>
             ELSE <<>>
  /\ timers = 0
  /\ sent = IF sc.isOnline THEN <<Handshake(sc.champion)>> ELSE <<>>

\* createInitialState(champ, deck); the deck is given in its shuffled order.
createInitialState(champ, deck) ==
  [champion |-> champ,
   health |-> CHAMPIONS[champ].maxHealth,
   maxHealth |-> CHAMPIONS[champ].maxHealth,
   mana |-> 1,
   maxMana |-> 1,
   deck |-> deck,
   hand |-> <<>>,
   graveyard |-> <<>>,
   shield |-> 0,
   abilityUsed |-> FALSE]

Event(kind, user, card) == [kind |-> kind, user |-> user, card |-> card]

Init ==
  /\ \E sc \in Scenarios :
       /\ isOnline = sc.isOnline
       /\ AppInBattle(sc)
       /\ gameState = [player |-> createInitialState(sc.champion, sc.playerDeck),
                       opponent |-> createInitialState(sc.opponentChampion, sc.opponentDeck),
                       turn |-> 1,
                       isPlayerTurn |-> TRUE,
                       winner |-> "none",
                       battleLog |-> 1]
  /\ pending = {}
  /\ isAiProcessing = FALSE
  /\ aiPc = "idle"
  /\ phase = "created"
  /\ last = Event("init", "none", "none")
  /\ calls = 0

(* ---------------------------------------------------------------------- *)
(* Core game logic                                                         *)
(* ---------------------------------------------------------------------- *)
\* The draw loop without the hand capacity test.
RECURSIVE drawLoopNoCap(_, _, _)
drawLoopNoCap(newDeck, newHand, count) ==
  IF count = 0 THEN <<newDeck, newHand>>
  ELSE IF Len(newDeck) > 0
       THEN drawLoopNoCap(Tail(newDeck), Append(newHand, Head(newDeck)), count - 1)
       ELSE drawLoopNoCap(newDeck, newHand, count - 1)

\* The draw loop taking cards from the back of the deck.
RECURSIVE drawLoopFromBack(_, _, _)
drawLoopFromBack(newDeck, newHand, count) ==
  IF count = 0 THEN <<newDeck, newHand>>
  ELSE IF Len(newDeck) > 0 /\ Len(newHand) < 6
       THEN drawLoopFromBack(SubSeq(newDeck, 1, Len(newDeck) - 1),
                             Append(newHand, newDeck[Len(newDeck)]), count - 1)
       ELSE drawLoopFromBack(newDeck, newHand, count - 1)

RECURSIVE drawLoop(_, _, _)
drawLoop(newDeck, newHand, count) ==
  IF count = 0 THEN <<newDeck, newHand>>
  ELSE IF Len(newDeck) > 0 /\ Len(newHand) < 6
       THEN drawLoop(Tail(newDeck), Append(newHand, Head(newDeck)), count - 1)
       ELSE drawLoop(newDeck, newHand, count - 1)

drawCard(state, count) ==
  LET r == drawLoop(state.deck, state.hand, count)
  IN  [state EXCEPT !.deck = r[1], !.hand = r[2]]

\* The updater of the mount effect: both sides draw the opening hand.
InitializeGame ==
  /\ phase = "created"
  /\ gameState' = [gameState EXCEPT !.player = drawCard(gameState.player, 3),
                                    !.opponent = drawCard(gameState.opponent, 3)]
  /\ phase' = "battle"
  /\ last' = Event("mount", "none", "none")
  /\ UNCHANGED <<pending, isAiProcessing, aiPc, isOnline, calls>>
  /\ UNCHANGED appVars

\* endTurn that adds the new turn's mana to what is left instead of refilling.
endTurnIncremental(prev) ==
  LET nextTurnNum == IF prev.isPlayerTurn THEN prev.turn ELSE prev.turn + 1
      nextIsPlayer == ~prev.isPlayerTurn
      activeEntityKey == IF nextIsPlayer THEN "player" ELSE "opponent"
      entity == prev[activeEntityKey]
      newMaxMana == Min(10, nextTurnNum)
      refreshed == [entity EXCEPT !.maxMana = newMaxMana,
                                  !.mana = entity.mana + newMaxMana,
                                  !.shield = 0,
                                  !.abilityUsed = FALSE]
  IN  [prev EXCEPT !.turn = nextTurnNum,
                   !.isPlayerTurn = nextIsPlayer,
                   ![activeEntityKey] = drawCard(refreshed, 1),
                   !.battleLog = prev.battleLog + 1]

\* endTurn that leaves the shield of the side becoming active in place.
endTurnKeepShield(prev) ==
  LET nextTurnNum == IF prev.isPlayerTurn THEN prev.turn ELSE prev.turn + 1
      nextIsPlayer == ~prev.isPlayerTurn
      activeEntityKey == IF nextIsPlayer THEN "player" ELSE "opponent"
      entity == prev[activeEntityKey]
      newMaxMana == Min(10, nextTurnNum)
      refreshed == [entity EXCEPT !.maxMana = newMaxMana,
                                  !.mana = newMaxMana,
                                  !.abilityUsed = FALSE]
  IN  [prev EXCEPT !.turn = nextTurnNum,
                   !.isPlayerTurn = nextIsPlayer,
                   ![activeEntityKey] = drawCard(refreshed, 1),
                   !.battleLog = prev.battleLog + 1]

\* endTurn that counts a new turn at every hand-over.
endTurnAlwaysIncrement(prev) ==
  LET nextTurnNum == prev.turn + 1
      nextIsPlayer == ~prev.isPlayerTurn
      activeEntityKey == IF nextIsPlayer THEN "player" ELSE "opponent"
      entity == prev[activeEntityKey]
      newMaxMana == Min(10, nextTurnNum)
      refreshed == [entity EXCEPT !.maxMana = newMaxMana,
                                  !.mana = newMaxMana,
                                  !.shield = 0,
                                  !.abilityUsed = FALSE]
  IN  [prev EXCEPT !.turn = nextTurnNum,
                   !.isPlayerTurn = nextIsPlayer,
                   ![activeEntityKey] = drawCard(refreshed, 1),
                   !.battleLog = prev.battleLog + 1]

\* The setGameState updater of endTurn.
endTurn(prev) ==
  LET nextTurnNum == IF prev.isPlayerTurn THEN prev.turn ELSE prev.turn + 1
      nextIsPlayer == ~prev.isPlayerTurn
      activeEntityKey == IF nextIsPlayer THEN "player" ELSE "opponent"
      entity == prev[activeEntityKey]
      newMaxMana == Min(10, nextTurnNum)
      refreshed == [entity EXCEPT !.maxMana = newMaxMana,
                                  !.mana = newMaxMana,
                                  !.shield = 0,
                                  !.abilityUsed = FALSE]
  IN  [prev EXCEPT !.turn = nextTurnNum,
                   !.isPlayerTurn = nextIsPlayer,
                   ![activeEntityKey] = drawCard(refreshed, 1),
                   !.battleLog = prev.battleLog + 1]

abilityIs(ability, exact, keyword) ==
  ability.name = exact \/ includes(ability.name, keyword)

\* The branch of the if/else-if chain of castAbility an ability name selects.
abilityBranch(ability) ==
  IF abilityIs(ability, <<"I","n","f","e","r","n","o">>, <<"d","a","m","a","g","e">>)
    THEN "damage"
  ELSE IF abilityIs(ability, <<"G","l","a","c","i","a","l"," ","W","a","l","l">>, <<"S","h","i","e","l","d">>)
    THEN "shield"
  ELSE IF abilityIs(ability, <<"R","e","g","r","o","w","t","h">>, <<"H","e","a","l">>)
    THEN "heal"
  ELSE IF abilityIs(ability, <<"O","v","e","r","c","l","o","c","k">>, <<"D","r","a","w">>)
    THEN "draw"
  ELSE "none"

\* The branch of every champion's ability, computed once.
AbilityBranch == [ch \in DOMAIN CHAMPIONS |-> abilityBranch(CHAMPIONS[ch].ability)]

\* castAbility that pays the cost but does not raise abilityUsed.
castAbilityKeepsFlag(prev, user) ==
  LET opponentKey == Other(user)
      activeChar == prev[user]
      targetChar == prev[opponentKey]
      ability == CHAMPIONS[activeChar.champion].ability
      branch == AbilityBranch[activeChar.champion]
      paid == [activeChar EXCEPT !.mana = activeChar.mana - ability.cost]
      newState == [prev EXCEPT ![user] = paid, !.battleLog = prev.battleLog + 1]
  IN  IF activeChar.mana < ability.cost \/ activeChar.abilityUsed THEN prev
      ELSE IF branch = "damage"
        THEN [newState EXCEPT ![opponentKey].health = Max(0, targetChar.health - 3)]
      ELSE IF branch = "shield"
        THEN [newState EXCEPT ![user].shield = @ + 4]
      ELSE IF branch = "heal"
        THEN [newState EXCEPT ![user].health = Min(activeChar.maxHealth, activeChar.health + 3)]
      ELSE IF branch = "draw"
        THEN [newState EXCEPT ![user] = drawCard(paid, 2)]
      ELSE newState

\* castAbility without the test of mana and abilityUsed.
castAbilityNoGuard(prev, user) ==
  LET opponentKey == Other(user)
      activeChar == prev[user]
      targetChar == prev[opponentKey]
      ability == CHAMPIONS[activeChar.champion].ability
      branch == AbilityBranch[activeChar.champion]
      paid == [activeChar EXCEPT !.mana = activeChar.mana - ability.cost,
                                 !.abilityUsed = TRUE]
      newState == [prev EXCEPT ![user] = paid, !.battleLog = prev.battleLog + 1]
  IN  IF branch = "damage"
        THEN [newState EXCEPT ![opponentKey].health = Max(0, targetChar.health - 3)]
      ELSE IF branch = "shield"
        THEN [newState EXCEPT ![user].shield = @ + 4]
      ELSE IF branch = "heal"
        THEN [newState EXCEPT ![user].health = Min(activeChar.maxHealth, activeChar.health + 3)]
      ELSE IF branch = "draw"
        THEN [newState EXCEPT ![user] = drawCard(paid, 2)]
      ELSE newState

\* castAbility whose heal is not held at maxHealth and whose shield branch
\* draws a card as well.
castAbilityTwoEffects(prev, user) ==
  LET opponentKey == Other(user)
      activeChar == prev[user]
      targetChar == prev[opponentKey]
      ability == CHAMPIONS[activeChar.champion].ability
      branch == AbilityBranch[activeChar.champion]
      paid == [activeChar EXCEPT !.mana = activeChar.mana - ability.cost,
                                 !.abilityUsed = TRUE]
      newState == [prev EXCEPT ![user] = paid, !.battleLog = prev.battleLog + 1]
  IN  IF activeChar.mana < ability.cost \/ activeChar.abilityUsed THEN prev
      ELSE IF branch = "damage"
        THEN [newState EXCEPT ![opponentKey].health = Max(0, targetChar.health - 3)]
      ELSE IF branch = "shield"
        THEN [newState EXCEPT ![user] = drawCard([paid EXCEPT !.shield = @ + 4], 1)]
      ELSE IF branch = "heal"
        THEN [newState EXCEPT ![user].health = activeChar.health + 3]
      ELSE IF branch = "draw"
        THEN [newState EXCEPT ![user] = drawCard(paid, 2)]
      ELSE newState

\* The setGameState updater of castAbility.
castAbility(prev, user) ==
  LET opponentKey == Other(user)
      activeChar == prev[user]
      targetChar == prev[opponentKey]
      ability == CHAMPIONS[activeChar.champion].ability
      branch == AbilityBranch[activeChar.champion]
      paid == [activeChar EXCEPT !.mana = activeChar.mana - ability.cost,
                                 !.abilityUsed = TRUE]
      newState == [prev EXCEPT ![user] = paid, !.battleLog = prev.battleLog + 1]
  IN  IF activeChar.mana < ability.cost \/ activeChar.abilityUsed THEN prev
      ELSE IF branch = "damage"
        THEN [newState EXCEPT ![opponentKey].health = Max(0, targetChar.health - 3)]
      ELSE IF branch = "shield"
        THEN [newState EXCEPT ![user].shield = @ + 4]
      ELSE IF branch = "heal"
        THEN [newState EXCEPT ![user].health = Min(activeChar.maxHealth, activeChar.health + 3)]
      ELSE IF branch = "draw"
        THEN [newState EXCEPT ![user] = drawCard(paid, 2)]
      ELSE newState

\* payCost that removes the card from the hand without filing it in the graveyard.
payCostNoGraveyard(prev, card, user) ==
  [prev EXCEPT ![user].hand = SelectSeq(prev[user].hand, LAMBDA c : c # card),
               ![user].mana = prev[user].mana - CARDS[card].cost]

\* payCost that moves the card and leaves the mana as it was.
payCostFreeOfCharge(prev, card, user) ==
  [prev EXCEPT ![user].hand = SelectSeq(prev[user].hand, LAMBDA c : c # card),
               ![user].graveyard = Append(prev[user].graveyard, card)]

\* payCost that adds the cost to the mana instead of deducting it.
payCostRefund(prev, card, user) ==
  [prev EXCEPT ![user].hand = SelectSeq(prev[user].hand, LAMBDA c : c # card),
               ![user].graveyard = Append(prev[user].graveyard, card),
               ![user].mana = prev[user].mana + CARDS[card].cost]

\* Step 1 of playCard: pay the cost and move the card to the graveyard.
payCost(prev, card, user) ==
  [prev EXCEPT ![user].hand = SelectSeq(prev[user].hand, LAMBDA c : c # card),
               ![user].graveyard = Append(prev[user].graveyard, card),
               ![user].mana = prev[user].mana - CARDS[card].cost]

\* The parsing logic without the Weapon line that reads "Atk".
parseEffectsNoAtk(cardId) ==
  LET card == CARDS[cardId]
      isSpellOrWeapon == card.type = "Spell" \/ card.type = "Weapon"
      damage1 == IF \/ card.type = "Attack"
                    \/ card.type = "Minion"
                    \/ (card.type = "Spell" /\ includes(toLowerCase(card.description), <<"d","m","g">>))
                 THEN card.value ELSE 0
      heal == IF isSpellOrWeapon /\ includes(card.description, <<"H","e","a","l">>)
              THEN card.value ELSE 0
      shield == IF isSpellOrWeapon /\ includes(card.description, <<"S","h","i","e","l","d">>)
                THEN card.value ELSE 0
      manaGain == IF isSpellOrWeapon /\ includes(card.description, <<"M","a","n","a">>)
                  THEN card.value ELSE 0
      damage3 == IF damage1 = 0 /\ heal = 0 /\ shield = 0 /\ manaGain = 0 /\ card.type = "Attack"
                 THEN card.value ELSE damage1
  IN  [damage |-> damage3, heal |-> heal, shield |-> shield, manaGain |-> manaGain]

\* The "Parsing Logic" of playCard: the deltas a card yields.
parseEffects(cardId) ==
  LET card == CARDS[cardId]
      isSpellOrWeapon == card.type = "Spell" \/ card.type = "Weapon"
      damage1 == IF \/ card.type = "Attack"
                    \/ card.type = "Minion"
                    \/ (card.type = "Spell" /\ includes(toLowerCase(card.description), <<"d","m","g">>))
                 THEN card.value ELSE 0
      heal == IF isSpellOrWeapon /\ includes(card.description, <<"H","e","a","l">>)
              THEN card.value ELSE 0
      shield == IF isSpellOrWeapon /\ includes(card.description, <<"S","h","i","e","l","d">>)
                THEN card.value ELSE 0
      manaGain == IF isSpellOrWeapon /\ includes(card.description, <<"M","a","n","a">>)
                  THEN card.value ELSE 0
      damage2 == IF card.type = "Weapon" /\ includes(card.description, <<"A","t","k">>)
                 THEN card.value ELSE damage1
      damage3 == IF damage2 = 0 /\ heal = 0 /\ shield = 0 /\ manaGain = 0 /\ card.type = "Attack"
                 THEN card.value ELSE damage2
  IN  [damage |-> damage3, heal |-> heal, shield |-> shield, manaGain |-> manaGain]

\* The deltas of every catalog card, computed once.
Effects == [c \in CardIds |-> parseEffects(c)]

\* applyDamage without the floor at 0.
applyDamageNoFloor(targetChar, damage) ==
  LET actualDmg == IF targetChar.shield > 0
                   THEN (IF targetChar.shield >= damage THEN 0 ELSE damage - targetChar.shield)
                   ELSE damage
      newShield == IF targetChar.shield > 0
                   THEN (IF targetChar.shield >= damage THEN targetChar.shield - damage ELSE 0)
                   ELSE targetChar.shield
  IN  [targetChar EXCEPT !.shield = newShield,
                         !.health = targetChar.health - actualDmg]

\* applyDamage that forgets the shield and hits health directly.
applyDamageIgnoreShield(targetChar, damage) ==
  [targetChar EXCEPT !.health = Max(0, targetChar.health - damage)]

\* "Apply Damage": the shield absorbs first, the rest reduces health.
applyDamage(targetChar, damage) ==
  LET blocked == targetChar.shield > 0 /\ targetChar.shield >= damage
      actualDmg == IF targetChar.shield > 0
                   THEN (IF targetChar.shield >= damage THEN 0 ELSE damage - targetChar.shield)
                   ELSE damage
      newShield == IF targetChar.shield > 0
                   THEN (IF blocked THEN targetChar.shield - damage ELSE 0)
                   ELSE targetChar.shield
  IN  [targetChar EXCEPT !.shield = newShield,
                         !.health = Max(0, targetChar.health - actualDmg)]

applyHeal(activeChar, heal) ==
  [activeChar EXCEPT !.health = Min(activeChar.maxHealth, activeChar.health + heal)]

applyShield(activeChar, shield) ==
  [activeChar EXCEPT !.shield = activeChar.shield + shield]

applyMana(activeChar, manaGain) ==
  [activeChar EXCEPT !.mana = Min(10, activeChar.mana + manaGain)]

\* "Check Win Condition": two independent tests, the second overrides.
checkWin(newState) ==
  LET w1 == IF newState.player.health <= 0 THEN "opponent" ELSE newState.winner
      w2 == IF newState.opponent.health <= 0 THEN "player" ELSE w1
  IN  [newState EXCEPT !.winner = w2]

\* Step 3 of playCard: the updater that applies the effects of the card.
applyEffects(prev, card, user) ==
  LET opponentKey == Other(user)
      e == Effects[card]
      target1 == IF e.damage > 0 THEN applyDamage(prev[opponentKey], e.damage)
                 ELSE prev[opponentKey]
      active1 == IF e.heal > 0 THEN applyHeal(prev[user], e.heal) ELSE prev[user]
      active2 == IF e.shield > 0 THEN applyShield(active1, e.shield) ELSE active1
      active3 == IF e.manaGain > 0 THEN applyMana(active2, e.manaGain) ELSE active2
  IN  checkWin([prev EXCEPT ![opponentKey] = target1, ![user] = active3,
                            !.battleLog = prev.battleLog + 1])

(* ---------------------------------------------------------------------- *)
(* Human intents, as the buttons of the arena allow them                   *)
(* ---------------------------------------------------------------------- *)
\* The effect without the test of whose turn it is: it starts runAiTurn on
\* every change of the flag.
aiEffectFiresOnAnyChange(old, new, processing) ==
  /\ old.isPlayerTurn # new.isPlayerTurn
  /\ new.winner = "none"
  /\ ~processing

\* The effect on [gameState.isPlayerTurn]: start runAiTurn when the flag
\* changed to the opponent, no winner is set and no loop is running.
aiEffectFires(old, new, processing) ==
  /\ old.isPlayerTurn # new.isPlayerTurn
  /\ ~new.isPlayerTurn
  /\ new.winner = "none"
  /\ ~processing

\* The hand cards the arena renders as playable (canAfford).
affordable(current) ==
  SelectSeq(current.player.hand, LAMBDA c : CARDS[c].cost <= current.player.mana)

\* Click on a hand card: canAfford && playCard(card, 'player'), up to the first await.
PlayerPlayCard(card) ==
  /\ phase = "battle"
  /\ gameState.isPlayerTurn
  /\ \E i \in 1..Min(MaxChoice, Len(affordable(gameState))) : affordable(gameState)[i] = card
  /\ gameState.winner = "none"
  /\ Cardinality({p \in pending : p.user = "player"}) < MaxPending
  /\ gameState' = payCost(gameState, card, "player")
  /\ pending' = pending \cup {[card |-> card, user |-> "player"]}
  /\ last' = Event("pay", "player", card)
  /\ UNCHANGED <<isAiProcessing, aiPc, phase, isOnline, calls>>
  /\ UNCHANGED appVars

\* Click on the ability button.
PlayerCastAbility ==
  /\ phase = "battle"
  /\ ~gameState.player.abilityUsed
  /\ gameState.player.mana >= CHAMPIONS[gameState.player.champion].ability.cost
  /\ gameState.isPlayerTurn
  /\ gameState' = castAbility(gameState, "player")
  /\ last' = Event("ability", "player", "none")
  /\ UNCHANGED <<pending, isAiProcessing, aiPc, phase, isOnline, calls>>
  /\ UNCHANGED appVars

\* Click on the End Turn button.
PlayerEndTurn ==
  /\ phase = "battle"
  /\ gameState.isPlayerTurn
  /\ gameState' = endTurn(gameState)
  /\ IF aiEffectFires(gameState, gameState', isAiProcessing)
     THEN isAiProcessing' = TRUE /\ aiPc' = "loop"
     ELSE UNCHANGED <<isAiProcessing, aiPc>>
  /\ last' = Event("endTurn", "player", "none")
  /\ UNCHANGED <<pending, phase, isOnline, calls>>
  /\ UNCHANGED appVars

\* The continuation of playCard after the delay and the commentary call.
ResolveCard(p) ==
  /\ phase = "battle"
  /\ p \in pending
  /\ gameState' = applyEffects(gameState, p.card, p.user)
  /\ pending' = pending \ {p}
  /\ aiPc' = IF p.user = "opponent" /\ aiPc = "card" THEN "loop" ELSE aiPc
  /\ last' = Event("resolve", p.user, p.card)
  /\ UNCHANGED <<isAiProcessing, phase, isOnline, calls>>
  /\ UNCHANGED appVars

(* ---------------------------------------------------------------------- *)
(* Opponent decision policy (runAiTurn)                                    *)
(* ---------------------------------------------------------------------- *)
estimatedDmg(cardId) ==
  LET card == CARDS[cardId]
  IN  IF \/ card.type = "Attack"
         \/ card.type = "Minion"
         \/ includes(card.description, <<"d","m","g">>)
      THEN card.value ELSE 0

\* What the scorer reads off every catalog card, computed once.
Estimate ==
  [c \in CardIds |->
     [estimatedDmg |-> estimatedDmg(c),
      hasHeal |-> includes(CARDS[c].description, <<"H","e","a","l">>),
      isDefensive |-> \/ includes(CARDS[c].description, <<"H","e","a","l">>)
                      \/ includes(CARDS[c].description, <<"S","h","i","e","l","d">>)]]

\* cardScore without the lethal bonus.
cardScoreNoLethal(cardId, current) ==
  LET card == CARDS[cardId]
      est == Estimate[cardId]
      opp == current.opponent
      playerHealth == current.player.health
      isLowHp == opp.health * 100 < opp.maxHealth * 35
  IN  card.cost * 10
      + (IF isLowHp /\ est.isDefensive THEN 500 ELSE 0)
      - (IF est.hasHeal /\ opp.health = opp.maxHealth THEN 1000 ELSE 0)
      + (IF playerHealth < 12 /\ est.estimatedDmg > 0 THEN 100 ELSE 0)
      + (IF opp.mana - card.cost = 0 THEN 50 ELSE 0)

\* cardScore without the bonus for a defensive card at low health.
cardScoreNoDefensive(cardId, current) ==
  LET card == CARDS[cardId]
      est == Estimate[cardId]
      opp == current.opponent
      playerHealth == current.player.health
  IN  card.cost * 10
      + (IF est.estimatedDmg >= playerHealth THEN 99999 ELSE 0)
      - (IF est.hasHeal /\ opp.health = opp.maxHealth THEN 1000 ELSE 0)
      + (IF playerHealth < 12 /\ est.estimatedDmg > 0 THEN 100 ELSE 0)
      + (IF opp.mana - card.cost = 0 THEN 50 ELSE 0)

\* The score runAiTurn gives a playable card.
cardScore(cardId, current) ==
  LET card == CARDS[cardId]
      est == Estimate[cardId]
      opp == current.opponent
      playerHealth == current.player.health
      isLowHp == opp.health * 100 < opp.maxHealth * 35
  IN  card.cost * 10
      + (IF est.estimatedDmg >= playerHealth THEN 99999 ELSE 0)
      + (IF isLowHp /\ est.isDefensive THEN 500 ELSE 0)
      - (IF est.hasHeal /\ opp.health = opp.maxHealth THEN 1000 ELSE 0)
      + (IF playerHealth < 12 /\ est.estimatedDmg > 0 THEN 100 ELSE 0)
      + (IF opp.mana - card.cost = 0 THEN 50 ELSE 0)

\* playableCards.forEach: the first card of the highest score; best = "none"
\* stands for bestAction = null, bestScore = -Infinity.
RECURSIVE scoreCards(_, _, _)
scoreCards(cards, best, current) ==
  IF cards = <<>> THEN best
  ELSE LET card == Head(cards)
       IN  IF best = "none" \/ cardScore(card, current) > cardScore(best, current)
           THEN scoreCards(Tail(cards), card, current)
           ELSE scoreCards(Tail(cards), best, current)

\* The branch of "Analyze ability type loosely" an ability name selects.
scoredAbility(name) ==
  IF includes(name, <<"I","n","f","e","r","n","o">>) THEN "damage"
  ELSE IF includes(name, <<"G","l","a","c","i","a","l">>) THEN "shield"
  ELSE IF includes(name, <<"R","e","g","r","o","w","t","h">>) THEN "heal"
  ELSE IF includes(name, <<"O","v","e","r","c","l","o","c","k">>) THEN "draw"
  ELSE "none"

ScoredAbility == [ch \in DOMAIN CHAMPIONS |-> scoredAbility(CHAMPIONS[ch].ability.name)]

\* The score runAiTurn gives the ability of the opponent's champion.
abilityScore(current) ==
  LET opp == current.opponent
      ability == CHAMPIONS[opp.champion].ability
      branch == ScoredAbility[opp.champion]
      playerHealth == current.player.health
      bonus ==
        IF branch = "damage" THEN (IF 3 >= playerHealth THEN 99999 ELSE 40)
        ELSE IF branch = "shield" THEN (IF 2 * opp.health < opp.maxHealth THEN 200 ELSE 20)
        ELSE IF branch = "heal" THEN (IF opp.health < opp.maxHealth - 5 THEN 300 ELSE 0 - 500)
        ELSE IF branch = "draw" THEN (IF Len(opp.hand) < 3 THEN 200 ELSE 30)
        ELSE 0
  IN  ability.cost * 10 + bonus + (IF opp.mana - ability.cost = 0 THEN 50 ELSE 0)

\* playableCards without the test of the cost against the mana.
playableCardsAnyCost(current) ==
  current.opponent.hand

playableCards(current) ==
  SelectSeq(current.opponent.hand, LAMBDA c : CARDS[c].cost <= current.opponent.mana)

canUseAbility(current) ==
  /\ ~current.opponent.abilityUsed
  /\ current.opponent.mana >= CHAMPIONS[current.opponent.champion].ability.cost

\* runAiTurn whose loop is not left when nothing can be played: it goes on
\* casting the ability.
runAiTurnNoExit(current) ==
  IF current.winner # "none" THEN [type |-> "end"]
  ELSE IF playableCards(current) = <<>> /\ ~canUseAbility(current) THEN [type |-> "ability"]
  ELSE LET bestCard == scoreCards(playableCards(current), "none", current)
           abilityWins == /\ canUseAbility(current)
                          /\ (bestCard = "none" \/ abilityScore(current) > cardScore(bestCard, current))
       IN  IF abilityWins THEN [type |-> "ability"]
           ELSE IF bestCard # "none" THEN [type |-> "card", card |-> bestCard]
           ELSE [type |-> "end"]

\* runAiTurn that leaves the loop when no action has a positive score.
runAiTurnEndsOnNegative(current) ==
  IF current.winner # "none" THEN [type |-> "end"]
  ELSE IF playableCards(current) = <<>> /\ ~canUseAbility(current) THEN [type |-> "end"]
  ELSE LET bestCard == scoreCards(playableCards(current), "none", current)
           abilityWins == /\ canUseAbility(current)
                          /\ (bestCard = "none" \/ abilityScore(current) > cardScore(bestCard, current))
       IN  IF abilityWins
           THEN (IF abilityScore(current) > 0 THEN [type |-> "ability"] ELSE [type |-> "end"])
           ELSE IF bestCard # "none" /\ cardScore(bestCard, current) > 0
           THEN [type |-> "card", card |-> bestCard]
           ELSE [type |-> "end"]

\* runAiTurn that prefers the ability when its score equals the best card score.
runAiTurnAbilityOnTie(current) ==
  IF current.winner # "none" THEN [type |-> "end"]
  ELSE IF playableCards(current) = <<>> /\ ~canUseAbility(current) THEN [type |-> "end"]
  ELSE LET bestCard == scoreCards(playableCards(current), "none", current)
           abilityWins == /\ canUseAbility(current)
                          /\ (bestCard = "none" \/ abilityScore(current) >= cardScore(bestCard, current))
       IN  IF abilityWins THEN [type |-> "ability"]
           ELSE IF bestCard # "none" THEN [type |-> "card", card |-> bestCard]
           ELSE [type |-> "end"]

\* One pass of the while loop of runAiTurn over the state it reads from
\* gameStateRef: the action it applies, or "end" when it leaves the loop.
runAiTurn(current) ==
  IF current.winner # "none" THEN [type |-> "end"]
  ELSE IF playableCards(current) = <<>> /\ ~canUseAbility(current) THEN [type |-> "end"]
  ELSE LET bestCard == scoreCards(playableCards(current), "none", current)
           abilityWins == /\ canUseAbility(current)
                          /\ (bestCard = "none" \/ abilityScore(current) > cardScore(bestCard, current))
       IN  IF abilityWins THEN [type |-> "ability"]
           ELSE IF bestCard # "none" THEN [type |-> "card", card |-> bestCard]
           ELSE [type |-> "end"]

\* The loop plays a card: playCard(bestAction.card, 'opponent') up to its first await.
AiPlayCard(action) ==
  /\ action.type = "card"
  /\ gameState' = payCost(gameState, action.card, "opponent")
  /\ pending' = pending \cup {[card |-> action.card, user |-> "opponent"]}
  /\ last' = Event("pay", "opponent", action.card)
  /\ aiPc' = "card"
  /\ UNCHANGED <<isAiProcessing, phase, isOnline, calls>>
  /\ UNCHANGED appVars

\* The loop casts the ability: castAbility('opponent').
AiCastAbility(action) ==
  /\ action.type = "ability"
  /\ gameState' = castAbility(gameState, "opponent")
  /\ last' = Event("ability", "opponent", "none")
  /\ UNCHANGED <<pending, isAiProcessing, aiPc, phase, isOnline, calls>>
  /\ UNCHANGED appVars

\* The loop is left: setIsAiProcessing(false); endTurn().
AiEndTurn(action) ==
  /\ action.type = "end"
  /\ gameState.turn < MaxTurn
  /\ gameState' = endTurn(gameState)
  /\ IF aiEffectFires(gameState, gameState', FALSE)
     THEN isAiProcessing' = TRUE /\ aiPc' = "loop"
     ELSE isAiProcessing' = FALSE /\ aiPc' = "idle"
  /\ last' = Event("endTurn", "opponent", "none")
  /\ UNCHANGED <<pending, phase, isOnline, calls>>
  /\ UNCHANGED appVars

\* One pass of the loop of runAiTurn, on the state gameStateRef holds.
AiStep ==
  /\ phase = "battle"
  /\ aiPc = "loop"
  /\ \E action \in {runAiTurn(gameState)} :
       \/ AiPlayCard(action)
       \/ AiCastAbility(action)
       \/ AiEndTurn(action)

\* handleEndGame: back to the lobby view, champion forgotten, connection
\* and peer dropped.
handleEndGame(a) ==
  [a EXCEPT !.view = "LOBBY", !.selectedChampion = "none", !.connection = 0, !.peer = 0]

\* A winner is shown: onEndGame leaves the battle view and the arena unmounts.
Unmount ==
  /\ phase = "battle"
  /\ gameState.winner # "none"
  /\ phase' = "unmounted"
  /\ last' = Event("unmount", "none", "none")
  /\ app' = handleEndGame(app)
  /\ peers' = [i \in DOMAIN peers |->
                 IF i = app.peer
                 THEN [peers[i] EXCEPT !.state = "destroyed",
                                       !.conn = IF @ = "open" THEN "closed" ELSE @]
                 ELSE peers[i]]
  /\ UNCHANGED <<gameState, pending, isAiProcessing, aiPc, isOnline, calls>>
  /\ UNCHANGED <<lobby, timers, sent>>

Next ==
  \/ InitializeGame
  \/ \E card \in Range(gameState.player.hand) : PlayerPlayCard(card)
  \/ PlayerCastAbility
  \/ PlayerEndTurn
  \/ \E p \in pending : ResolveCard(p)
  \/ AiStep
  \/ Unmount

Spec == Init /\ [][Next]_vars

\* The arena with its timers and promises settling: a running policy loop
\* takes its next pass, a card play in flight gets its effects applied.
LiveSpec ==
  /\ Spec
  /\ WF_vars(AiStep)
  /\ \A user \in Users : WF_vars(\E p \in pending : p.user = user /\ ResolveCard(p))

(* ---------------------------------------------------------------------- *)
(* App and its OnlineLobby (App.tsx). OnlineLobby is a function declared   *)
(* inside the body of App, so every render of App yields a new component   *)
(* type: whenever a useState cell of App changes while the lobby is shown, *)
(* the mounted OnlineLobby instance is unmounted (its effect cleanup runs, *)
(* its own cells are lost, setters held by its closures do nothing any     *)
(* more) and a new instance is mounted with the initial cells.             *)
(* ---------------------------------------------------------------------- *)
\* The Peer objects one session may create.
MaxPeers == 2

\* The deck the human confirms and the deck the arena picks for its opponent.
ConfirmedDeck == (CHOOSE sc \in Scenarios : ~sc.isOnline).playerDeck

PickedDeck == (CHOOSE sc \in Scenarios : ~sc.isOnline).opponentDeck

\* No arena is mounted.
NoArena == [winner |-> "none"]

InitApp ==
  /\ app = [view |-> "LOBBY", isOnlineMode |-> FALSE, selectedChampion |-> "none",
            peer |-> 0, connection |-> 0, opponentChampion |-> "none"]
  /\ lobby = NoLobby
  /\ peers = <<>>
  /\ timers = 0
  /\ sent = <<>>
  /\ gameState = NoArena
  /\ pending = {}
  /\ isAiProcessing = FALSE
  /\ aiPc = "idle"
  /\ phase = "absent"
  /\ isOnline = FALSE
  /\ calls = 0
  /\ last = Event("init", "none", "none")

\* The instance is unmounted: the cleanup of its effect destroys the host
\* peer the effect created, and the closures of all its handlers go stale.
Cleanup(l, ps) ==
  [i \in DOMAIN ps |->
     [ps[i] EXCEPT !.live = FALSE,
                   !.state = IF l.hostPeer = i THEN "destroyed" ELSE @]]

\* The effect on [mode]: in HOST mode without a peer, go WAITING and create
\* a Peer with its open, connection and error handlers.
HostEffect(l, a, ps) ==
  IF l.mode = "HOST" /\ a.peer = 0
  THEN [lobby |-> [l EXCEPT !.status = "WAITING", !.hostPeer = Len(ps) + 1],
        peers |-> Append(ps, NewPeer("host", a.selectedChampion))]
  ELSE [lobby |-> [l EXCEPT !.hostPeer = 0], peers |-> ps]

\* Lobby and peers after a handler ran: l and ps are what the handler's own
\* calls left; if a cell of App changed, App renders again and the lobby is
\* mounted anew (or is gone with the view).
Rendered(newApp, l, ps) ==
  IF newApp = app THEN [lobby |-> l, peers |-> ps]
  ELSE IF newApp.view = "ONLINE_LOBBY"
       THEN HostEffect(FreshLobby, newApp, Cleanup(lobby, ps))
       ELSE [lobby |-> NoLobby, peers |-> Cleanup(lobby, ps)]

\* The battle view is rendered for the first time: the arena's useState
\* initializer picks an opponent among the champions the human did not choose.
EnterArena(newApp) ==
  IF newApp.view = "BATTLE" /\ app.view # "BATTLE" /\ newApp.selectedChampion # "none"
  THEN \E opponentChampion \in DOMAIN CHAMPIONS \ {newApp.selectedChampion} :
         /\ gameState' = [player |-> createInitialState(newApp.selectedChampion, ConfirmedDeck),
                          opponent |-> createInitialState(opponentChampion, PickedDeck),
                          turn |-> 1,
                          isPlayerTurn |-> TRUE,
                          winner |-> "none",
                          battleLog |-> 1]
         /\ phase' = "created"
         /\ isOnline' = newApp.isOnlineMode
         /\ UNCHANGED <<pending, isAiProcessing, aiPc, calls>>
  ELSE UNCHANGED arenaVars

\* A handler of App or of the lobby has run.
Commit(kind, role, newApp, l, ps) ==
  /\ Len(Rendered(newApp, l, ps).peers) <= MaxPeers
  /\ app' = newApp
  /\ lobby' = Rendered(newApp, l, ps).lobby
  /\ peers' = Rendered(newApp, l, ps).peers
  /\ EnterArena(newApp)
  /\ last' = Event(kind, role, "none")

\* The two buttons of the Lobby view.
ClickSinglePlayer ==
  /\ app.view = "LOBBY"
  /\ Commit("singlePlayer", "none",
            [app EXCEPT !.isOnlineMode = FALSE, !.view = "CHAMPION_SELECT"], lobby, peers)
  /\ UNCHANGED <<timers, sent>>

ClickOnlinePlay ==
  /\ app.view = "LOBBY"
  /\ Commit("onlinePlay", "none",
            [app EXCEPT !.isOnlineMode = TRUE, !.view = "CHAMPION_SELECT"], lobby, peers)
  /\ UNCHANGED <<timers, sent>>

handleChampionSelect(champ) ==
  /\ app.view = "CHAMPION_SELECT"
  /\ Commit("championSelect", "none",
            [app EXCEPT !.selectedChampion = champ, !.view = "DECK_BUILDER"], lobby, peers)
  /\ UNCHANGED <<timers, sent>>

\* handleDeckConfirm that enters the battle whatever the mode.
handleDeckConfirmToBattle ==
  /\ app.view = "DECK_BUILDER"
  /\ app.selectedChampion # "none"
  /\ Commit("deckConfirm", "none", [app EXCEPT !.view = "BATTLE"], lobby, peers)
  /\ UNCHANGED <<timers, sent>>

handleDeckConfirm ==
  /\ app.view = "DECK_BUILDER"
  /\ app.selectedChampion # "none"
  /\ Commit("deckConfirm", "none",
            [app EXCEPT !.view = IF app.isOnlineMode THEN "ONLINE_LOBBY" ELSE "BATTLE"],
            lobby, peers)
  /\ UNCHANGED <<timers, sent>>

\* onBack of the deck builder.
DeckBack ==
  /\ app.view = "DECK_BUILDER"
  /\ app.selectedChampion # "none"
  /\ Commit("deckBack", "none", [app EXCEPT !.view = "CHAMPION_SELECT"], lobby, peers)
  /\ UNCHANGED <<timers, sent>>

\* The logo of the navigation bar, shown in champion select and deck builder.
NavHome ==
  /\ app.view \in {"CHAMPION_SELECT", "DECK_BUILDER"}
  /\ Commit("navHome", "none", [app EXCEPT !.view = "LOBBY"], lobby, peers)
  /\ UNCHANGED <<timers, sent>>

\* "Host Game" / "Join Game": setMode(m); setPeer(null); setStatus('IDLE');
\* setError(''). If peer was set, App renders again and the calls on the
\* old instance are lost; otherwise the instance keeps its cells and the
\* effect runs again when the mode changed.
ClickMode(m) ==
  /\ lobby.mode # "none"
  /\ LET newApp == [app EXCEPT !.peer = 0]
         l == [lobby EXCEPT !.mode = m, !.status = "IDLE", !.error = ""]
         again == HostEffect(l, app, [i \in DOMAIN peers |->
                               [peers[i] EXCEPT !.state = IF lobby.hostPeer = i
                                                          THEN "destroyed" ELSE @]])
     IN  IF newApp = app /\ m # lobby.mode
         THEN Commit("mode", m, app, again.lobby, again.peers)
         ELSE Commit("mode", m, newApp, l, peers)
  /\ UNCHANGED <<timers, sent>>

\* Typing into the Host ID input.
TypeJoinCode ==
  /\ lobby.mode = "JOIN"
  /\ lobby.status # "CONNECTED"
  /\ ~lobby.joinCode
  /\ Commit("joinCode", "none", app, [lobby EXCEPT !.joinCode = TRUE], peers)
  /\ UNCHANGED <<timers, sent>>

\* The CONNECT button: setStatus('CONNECTING'), a new Peer, setPeer(newPeer).
handleJoin ==
  /\ lobby.mode = "JOIN"
  /\ lobby.status \notin {"CONNECTED", "CONNECTING"}
  /\ lobby.joinCode
  /\ Len(peers) < MaxPeers
  /\ Commit("join", "none",
            [app EXCEPT !.peer = Len(peers) + 1],
            [lobby EXCEPT !.status = "CONNECTING"],
            Append(peers, NewPeer("join", app.selectedChampion)))
  /\ UNCHANGED <<timers, sent>>

\* "Cancel & Return".
Cancel ==
  /\ lobby.mode # "none"
  /\ Commit("cancel", "none", [app EXCEPT !.view = "LOBBY"], lobby, peers)
  /\ UNCHANGED <<timers, sent>>

\* The signalling server answers a Peer. Host: setMyId(id); setPeer(newPeer);
\* App renders again, and the cleanup of the instance that created the peer
\* destroys it, so the 'connection' handler never gets a connection.
\* Join: newPeer.connect(joinCode).
PeerOpen(i) ==
  /\ peers[i].state = "new"
  /\ IF peers[i].role = "host"
     THEN Commit("peerOpen", "host",
                 [app EXCEPT !.peer = i],
                 IF peers[i].live THEN [lobby EXCEPT !.myId = TRUE] ELSE lobby,
                 [peers EXCEPT ![i].state = "open"])
     ELSE Commit("peerOpen", "join", app, lobby,
                 [peers EXCEPT ![i].state = "open", ![i].conn = "connecting"])
  /\ UNCHANGED <<timers, sent>>

\* A Peer reports an error. Host: setError("Connection Error: ...").
\* Join: setError("Network Error"); setStatus('IDLE').
PeerError(i) ==
  /\ peers[i].state \in {"new", "open"}
  /\ peers[i].conn \in {"none", "connecting"}
  /\ Commit("peerError", peers[i].role, app,
            IF ~peers[i].live THEN lobby
            ELSE IF peers[i].role = "host"
                 THEN [lobby EXCEPT !.error = "Connection Error"]
                 ELSE [lobby EXCEPT !.error = "Network Error", !.status = "IDLE"],
            [peers EXCEPT ![i].state = "destroyed"])
  /\ UNCHANGED <<timers, sent>>

\* The outgoing connection opens: setConnection(conn); setStatus('CONNECTED');
\* setupConnection(conn), which installs the data handler and sends the
\* handshake with the selectedChampion its closure holds.
ConnOpen(i) ==
  /\ peers[i].state = "open"
  /\ peers[i].conn = "connecting"
  /\ Commit("connOpen", peers[i].role,
            [app EXCEPT !.connection = i],
            IF peers[i].live THEN [lobby EXCEPT !.status = "CONNECTED"] ELSE lobby,
            [peers EXCEPT ![i].conn = "open"])
  /\ sent' = IF peers[i].champion # "none"
             THEN Append(sent, Handshake(peers[i].champion)) ELSE sent
  /\ UNCHANGED timers

\* The outgoing connection fails: setError("Failed to connect to host.");
\* setStatus('IDLE').
ConnError(i) ==
  /\ peers[i].state = "open"
  /\ peers[i].conn = "connecting"
  /\ Commit("connError", peers[i].role, app,
            IF peers[i].live
            THEN [lobby EXCEPT !.error = "Failed to connect to host.", !.status = "IDLE"]
            ELSE lobby,
            [peers EXCEPT ![i].conn = "failed"])
  /\ UNCHANGED <<timers, sent>>

\* The data handler receives the remote HANDSHAKE:
\* setOpponentChampion(payload.champion) and a timer for setView('BATTLE').
HandshakeData(i, champ) ==
  /\ peers[i].state = "open"
  /\ peers[i].conn = "open"
  /\ ~peers[i].heard
  /\ Commit("handshake", champ,
            [app EXCEPT !.opponentChampion = champ], lobby,
            [peers EXCEPT ![i].heard = TRUE])
  /\ timers' = timers + 1
  /\ UNCHANGED sent

\* The timer of the data handler fires: setView('BATTLE').
TimerFires ==
  /\ timers > 0
  /\ timers' = timers - 1
  /\ Commit("timer", "none", [app EXCEPT !.view = "BATTLE"], lobby, peers)
  /\ UNCHANGED sent

NextApp ==
  \/ ClickSinglePlayer
  \/ ClickOnlinePlay
  \/ \E champ \in DOMAIN CHAMPIONS : handleChampionSelect(champ)
  \/ handleDeckConfirm
  \/ DeckBack
  \/ NavHome
  \/ \E m \in {"HOST", "JOIN"} : ClickMode(m)
  \/ TypeJoinCode
  \/ handleJoin
  \/ Cancel
  \/ \E i \in DOMAIN peers : PeerOpen(i)
  \/ \E i \in DOMAIN peers : PeerError(i)
  \/ \E i \in DOMAIN peers : ConnOpen(i)
  \/ \E i \in DOMAIN peers : ConnError(i)
  \/ \E i \in DOMAIN peers : \E champ \in DOMAIN CHAMPIONS : HandshakeData(i, champ)
  \/ TimerFires
  \/ InitializeGame

SpecApp == InitApp /\ [][NextApp]_vars

(* ---------------------------------------------------------------------- *)
(* The handlers under an arbitrary caller: playCard, castAbility and       *)
(* endTurn invoked directly, without the conditions the buttons and the    *)
(* policy put in front of them; only the handlers' own tests apply.        *)
(* ---------------------------------------------------------------------- *)
\* The cards a caller may name for a side: the first MaxChoice cards of its
\* hand, of its deck and of its graveyard.
CallCards(user) ==
  LET first(seq) == {seq[i] : i \in 1..Min(MaxChoice, Len(seq))}
  IN  first(gameState[user].hand) \cup first(gameState[user].deck)
        \cup first(gameState[user].graveyard)

\* playCard(card, user): returns at once when a winner is set, else pays.
CallPlayCard(card, user) ==
  /\ phase = "battle"
  /\ calls < MaxCalls
  /\ Cardinality({p \in pending : p.user = user}) < MaxPending
  /\ [card |-> card, user |-> user] \notin pending
  /\ calls' = calls + 1
  /\ IF gameState.winner # "none"
     THEN /\ last' = Event("playRejected", user, card)
          /\ UNCHANGED <<gameState, pending>>
     ELSE /\ gameState' = payCost(gameState, card, user)
          /\ pending' = pending \cup {[card |-> card, user |-> user]}
          /\ last' = Event("pay", user, card)
  /\ UNCHANGED <<isAiProcessing, aiPc, phase, isOnline>>
  /\ UNCHANGED appVars

\* castAbility(user): the updater decides whether the cast applies.
CallCastAbility(user) ==
  /\ phase = "battle"
  /\ calls < MaxCalls
  /\ calls' = calls + 1
  /\ gameState' = castAbility(gameState, user)
  /\ last' = Event(IF gameState' = gameState THEN "abilityRejected" ELSE "ability",
                   user, "none")
  /\ UNCHANGED <<pending, isAiProcessing, aiPc, phase, isOnline>>
  /\ UNCHANGED appVars

\* endTurn(): whoever calls it, the updater passes the turn on.
CallEndTurn ==
  /\ phase = "battle"
  /\ gameState.turn < MaxTurn
  /\ gameState' = endTurn(gameState)
  /\ last' = Event("endTurn", IF gameState.isPlayerTurn THEN "player" ELSE "opponent", "none")
  /\ UNCHANGED <<pending, isAiProcessing, aiPc, phase, isOnline, calls>>
  /\ UNCHANGED appVars

NextCalls ==
  \/ InitializeGame
  \/ \E user \in Users : \E card \in CallCards(user) : CallPlayCard(card, user)
  \/ \E user \in Users : CallCastAbility(user)
  \/ CallEndTurn
  \/ \E p \in pending : ResolveCard(p)

SpecCalls == Init /\ [][NextCalls]_vars

(* ---------------------------------------------------------------------- *)
(* The opponent policy on its own: runAiTurn run from decision states.     *)
(* A decision state is a battle in the opponent's turn: the opponent has   *)
(* played the first cards of its deck, holds the next ones (at most 6),    *)
(* has some of the turn's mana left, and the human is down to some health. *)
(* ---------------------------------------------------------------------- *)
DecisionState(sc, played, held, turn, mana, abilityUsed, health) ==
  LET player == drawCard(createInitialState(sc.champion, sc.playerDeck), 3)
      opponent == createInitialState(sc.opponentChampion, sc.opponentDeck)
      deck == sc.opponentDeck
  IN  [player |-> [player EXCEPT !.health = health],
       opponent |-> [opponent EXCEPT
                       !.graveyard = SubSeq(deck, 1, played),
                       !.hand = SubSeq(deck, played + 1, played + held),
                       !.deck = SubSeq(deck, played + held + 1, Len(deck)),
                       !.maxMana = Min(10, turn),
                       !.mana = mana,
                       !.abilityUsed = abilityUsed],
       turn |-> turn,
       isPlayerTurn |-> FALSE,
       winner |-> "none",
       battleLog |-> 2 * turn + played]

InitPolicy ==
  /\ \E sc \in Scenarios :
       /\ isOnline = sc.isOnline
       /\ AppInBattle(sc)
       /\ \E played \in 0..Len(sc.opponentDeck) :
          \E held \in 0..Min(6, Len(sc.opponentDeck) - played) :
          \E turn \in 1..MaxTurn :
          \E mana \in 0..turn :
          \E abilityUsed \in BOOLEAN :
          \E health \in 1..MaxPolicyHealth :
            gameState = DecisionState(sc, played, held, turn, mana, abilityUsed, health)
  /\ pending = {}
  /\ isAiProcessing = TRUE
  /\ aiPc = "loop"
  /\ phase = "battle"
  /\ last = Event("endTurn", "player", "none")
  /\ calls = 0

NextPolicy ==
  \/ AiStep
  \/ \E p \in pending : ResolveCard(p)

SpecPolicy == InitPolicy /\ [][NextPolicy]_vars

(* ---------------------------------------------------------------------- *)
(* The scorer of the policy over the thresholds it tests: decision states  *)
(* in which the opponent's own health lies on either side of 35% of its    *)
(* maximum and the human's health on either side of 12.                    *)
(* ---------------------------------------------------------------------- *)
\* Own health of the opponent (Ignis, 30): dying, just below and just above
\* 35%, just below full, full.
PolicyOwnHealth == {1, 10, 11, 29, 30}

\* Health of the human just below and at the threshold of 12.
PolicyHumanHealth == {11, 12}

InitScorer ==
  /\ \E sc \in Scenarios :
       /\ isOnline = sc.isOnline
       /\ AppInBattle(sc)
       /\ \E played \in 0..Len(sc.opponentDeck) :
          \E held \in 0..Min(6, Len(sc.opponentDeck) - played) :
          \E turn \in 1..MaxTurn :
          \E mana \in 0..turn :
          \E abilityUsed \in BOOLEAN :
          \E health \in (1..MaxPolicyHealth) \cup PolicyHumanHealth :
          \E own \in PolicyOwnHealth :
            gameState = [DecisionState(sc, played, held, turn, mana, abilityUsed, health)
                           EXCEPT !.opponent.health = own]
  /\ pending = {}
  /\ isAiProcessing = TRUE
  /\ aiPc = "loop"
  /\ phase = "battle"
  /\ last = Event("endTurn", "player", "none")
  /\ calls = 0

SpecScorer == InitScorer /\ [][NextPolicy]_vars

(* ---------------------------------------------------------------------- *)
(* The effect updater on its own: a card of the catalog whose cost is      *)
(* paid is resolved for either side, against the shield, health and mana   *)
(* a battle can show at that moment.                                       *)
(* ---------------------------------------------------------------------- *)
\* The shield a side can hold: only castAbility adds shield (4, once per
\* turn, reset by endTurn); no description of the catalog reads "Shield".
AbilityShield == 4

\* A deck of 8 distinct cards that holds the given card first.
DeckWith(card, deck) ==
  LET rest == SelectSeq(deck, LAMBDA c : c # card)
  IN  <<card>> \o SubSeq(rest, 1, 7)

\* The battle after `user` paid for `card`: the card lies on the graveyard,
\* the target holds `shield` and `health`, the acting side has `mana` left
\* and is `hurt` points below its maximal health.
ResolverState(sc, user, card, shield, health, mana, hurt) ==
  LET champ == IF user = "player" THEN sc.champion ELSE sc.opponentChampion
      deck == DeckWith(card, IF user = "player" THEN sc.playerDeck ELSE sc.opponentDeck)
      otherChamp == IF user = "player" THEN sc.opponentChampion ELSE sc.champion
      otherDeck == IF user = "player" THEN sc.opponentDeck ELSE sc.playerDeck
      active == createInitialState(champ, deck)
      target == drawCard(createInitialState(otherChamp, otherDeck), 3)
      sides == (user :> [active EXCEPT
                           !.graveyard = <<card>>,
                           !.hand = SubSeq(deck, 2, 4),
                           !.deck = SubSeq(deck, 5, 8),
                           !.maxMana = Min(10, MaxTurn),
                           !.mana = mana,
                           !.health = active.maxHealth - hurt]) @@
               (Other(user) :> [target EXCEPT
                           !.maxMana = Min(10, MaxTurn),
                           !.shield = shield,
                           !.health = health])
  IN  [player |-> sides["player"],
       opponent |-> sides["opponent"],
       turn |-> MaxTurn,
       isPlayerTurn |-> (user = "player"),
       winner |-> "none",
       battleLog |-> 2 * MaxTurn]

InitResolver ==
  /\ \E sc \in Scenarios :
     \E user \in Users :
     \E card \in CardIds :
     \E shield \in 0..AbilityShield :
     \E health \in 1..MaxPolicyHealth :
     \E mana \in 0..10 :
     \E hurt \in 0..MaxPolicyHealth :
       /\ isOnline = sc.isOnline
       /\ AppInBattle(sc)
       /\ gameState = ResolverState(sc, user, card, shield, health, mana, hurt)
       /\ pending = {[card |-> card, user |-> user]}
       /\ last = Event("pay", user, card)
       /\ isAiProcessing = (user = "opponent")
       /\ aiPc = IF user = "opponent" THEN "card" ELSE "idle"
  /\ phase = "battle"
  /\ calls = 0

NextResolver ==
  \E p \in pending : ResolveCard(p)

SpecResolver == InitResolver /\ [][NextResolver]_vars

(* ---------------------------------------------------------------------- *)
(* castAbility on its own: either side casts the ability of any champion   *)
(* of the catalog, with the mana, health, hand and deck a battle can show  *)
(* at that moment.                                                         *)
(* ---------------------------------------------------------------------- *)
\* The scenario with `champ` as the champion of `user`.
WithChampion(sc, user, champ) ==
  IF user = "player" THEN [sc EXCEPT !.champion = champ]
  ELSE [sc EXCEPT !.opponentChampion = champ]

\* The battle in the turn of `user`: it has played `played` cards, holds
\* `held` cards and `mana` mana, is `hurt` points below its maximal health
\* and has or has not used its ability; the other side holds `shield` and
\* `health`.
CastState(sc, user, held, played, shield, health, mana, hurt, abilityUsed) ==
  LET champ == IF user = "player" THEN sc.champion ELSE sc.opponentChampion
      deck == IF user = "player" THEN sc.playerDeck ELSE sc.opponentDeck
      otherChamp == IF user = "player" THEN sc.opponentChampion ELSE sc.champion
      otherDeck == IF user = "player" THEN sc.opponentDeck ELSE sc.playerDeck
      active == createInitialState(champ, deck)
      target == drawCard(createInitialState(otherChamp, otherDeck), 3)
      sides == (user :> [active EXCEPT
                           !.graveyard = SubSeq(deck, 1, played),
                           !.hand = SubSeq(deck, played + 1, played + held),
                           !.deck = SubSeq(deck, played + held + 1, Len(deck)),
                           !.maxMana = Min(10, MaxTurn),
                           !.mana = mana,
                           !.abilityUsed = abilityUsed,
                           !.health = active.maxHealth - hurt]) @@
               (Other(user) :> [target EXCEPT
                           !.maxMana = Min(10, MaxTurn),
                           !.shield = shield,
                           !.health = health])
  IN  [player |-> sides["player"],
       opponent |-> sides["opponent"],
       turn |-> MaxTurn,
       isPlayerTurn |-> (user = "player"),
       winner |-> "none",
       battleLog |-> 2 * MaxTurn]

InitAbility ==
  /\ \E base \in Scenarios :
     \E user \in Users :
     \E champ \in DOMAIN CHAMPIONS :
     \E held \in 3..6 :
     \E played \in {0, 2} :
     \E shield \in {0, AbilityShield} :
     \E health \in 1..MaxPolicyHealth :
     \E mana \in 0..Min(10, MaxTurn) :
     \E hurt \in 0..MaxPolicyHealth :
     \E abilityUsed \in BOOLEAN :
       LET sc == WithChampion(base, user, champ)
       IN  /\ sc.champion # sc.opponentChampion
           /\ isOnline = sc.isOnline
           /\ AppInBattle(sc)
           /\ gameState = CastState(sc, user, held, played, shield, health, mana,
                                    hurt, abilityUsed)
           /\ isAiProcessing = (user = "opponent" /\ ~sc.isOnline)
           /\ aiPc = IF user = "opponent" /\ ~sc.isOnline THEN "loop" ELSE "idle"
  /\ pending = {}
  /\ last = Event("endTurn", "none", "none")
  /\ phase = "battle"
  /\ calls = 0

NextAbility ==
  \E user \in Users : CallCastAbility(user)

SpecAbility == InitAbility /\ [][NextAbility]_vars

TypeOK ==
  /\ gameState.turn \in 1..(MaxTurn + 1)
  /\ gameState.winner \in {"none", "player", "opponent"}
  /\ aiPc \in {"idle", "loop", "card"}
  /\ phase \in {"created", "battle", "unmounted"}
  /\ isOnline \in BOOLEAN
  /\ calls \in 0..MaxCalls
  /\ gameState.battleLog >= 1

(* ---------------------------------------------------------------------- *)
(* Properties                                                              *)
(* ---------------------------------------------------------------------- *)
Damage(cardId) == Effects[cardId].damage

RECURSIVE SumManaGain(_)
SumManaGain(seq) ==
  IF seq = <<>> THEN 0 ELSE Effects[Head(seq)].manaGain + SumManaGain(Tail(seq))

\* C1: after any sequence of play-card, use-ability and end-turn intents each
\* side's health is within 0..maxHealth and each side's shield is >= 0.
C1_HealthShieldBounds ==
  \A u \in Users :
    /\ 0 <= gameState[u].health
    /\ gameState[u].health <= gameState[u].maxHealth
    /\ gameState[u].shield >= 0

\* A damage card has resolved against a target whose health it exhausted.
C1_Witness ==
  /\ last.kind = "resolve"
  /\ Damage(last.card) > 0
  /\ gameState[Other(last.user)].health = 0

\* C2 as stated: in every reachable state each side's mana is within
\* 0..maxMana and maxMana <= 10, also after a mana-gain card was played.
C2_ManaWithinMaxMana ==
  \A u \in Users :
    /\ 0 <= gameState[u].mana
    /\ gameState[u].mana <= gameState[u].maxMana
    /\ gameState[u].maxMana <= 10

\* C2 as amended: each side's mana is within 0..10 and maxMana <= 10; mana
\* exceeds maxMana by at most the mana gain of the mana-gain cards that side
\* has played.
C2_ManaWithinTen ==
  \A u \in Users :
    /\ 0 <= gameState[u].mana
    /\ gameState[u].mana <= 10
    /\ gameState[u].maxMana <= 10
    /\ gameState[u].mana <= gameState[u].maxMana + SumManaGain(gameState[u].graveyard)

\* A mana-gain card has resolved and left its side with more mana than maxMana.
C2_Witness ==
  /\ last.kind = "resolve"
  /\ Effects[last.card].manaGain > 0
  /\ gameState[last.user].mana > gameState[last.user].maxMana

\* C3: GameOver is irreversible: once winner is 'player' or 'opponent' no
\* later step changes winner to a different value or back to none.
C3_WinnerIrreversible ==
  [][gameState.winner # "none" => gameState'.winner = gameState.winner]_vars

\* C4: once winner is set every play-card, use-ability or end-turn intent is
\* a no-op: both combatant states, the turn counter and the whose-turn flag
\* stay unchanged.
C4_IntentsAfterWinnerAreNoOps ==
  [][(gameState.winner # "none" /\ last'.kind \in {"pay", "ability", "endTurn"})
       => /\ gameState'.player = gameState.player
          /\ gameState'.opponent = gameState.opponent
          /\ gameState'.turn = gameState.turn
          /\ gameState'.isPlayerTurn = gameState.isPlayerTurn]_vars

\* C5: the win check runs after every card resolution and every ability
\* resolution: in the state such a resolution produces, a side whose health
\* is 0 while the other side is alive has lost (winner is the other side).
C5_WinCheckAfterEveryResolution ==
  last.kind \in {"resolve", "ability"} =>
    \A u \in Users :
      (gameState[u].health = 0 /\ gameState[Other(u)].health > 0)
        => gameState.winner = Other(u)

\* C6: a card dealing damage D against shield S and health H leaves shield
\* S-D and health H when S >= D, and shield 0 and health max(0, H-(D-S))
\* when S < D.
C6_DamageShieldFirst ==
  [][(last'.kind = "resolve" /\ Damage(last'.card) > 0) =>
       LET target == Other(last'.user)
           D == Damage(last'.card)
           S == gameState[target].shield
           H == gameState[target].health
       IN  IF S >= D
           THEN /\ gameState'[target].shield = S - D
                /\ gameState'[target].health = H
           ELSE /\ gameState'[target].shield = 0
                /\ gameState'[target].health = Max(0, H - (D - S))]_vars

\* A damage card has resolved against a shield that absorbed all of it.
C6_Witness ==
  /\ last.kind = "resolve"
  /\ Damage(last.card) > 0
  /\ gameState[Other(last.user)].shield > 0

\* C7: when a card's damage reduces the target's health to 0, winner is the
\* attacking side in the state that transition produces.
C7_LethalCardSetsWinner ==
  [][(/\ last'.kind = "resolve"
      /\ Damage(last'.card) > 0
      /\ gameState[Other(last'.user)].health > 0
      /\ gameState'[Other(last'.user)].health = 0)
       => gameState'.winner = last'.user]_vars

\* The cards of the two original decks of a battle, by the human's champion.
OriginalDecks ==
  [ch \in {sc.champion : sc \in Scenarios} |->
     LET sc == CHOOSE x \in Scenarios : x.champion = ch
     IN  [player |-> Range(sc.playerDeck), opponent |-> Range(sc.opponentDeck)]]

\* The cards a side holds in deck, hand and graveyard, in that order.
AllCards(u) == gameState[u].deck \o gameState[u].hand \o gameState[u].graveyard

\* C8: for each side deck, hand and graveyard together hold exactly the 8
\* cards of that side's original deck, each exactly once.
C8_Conservation ==
  LET original == OriginalDecks[gameState.player.champion]
  IN  \A u \in Users :
        /\ Len(AllCards(u)) = 8
        /\ Range(AllCards(u)) = original[u]
        /\ Cardinality(original[u]) = 8

\* A side has drawn its whole deck and played some of it.
C8_Witness ==
  \E u \in Users :
    /\ gameState[u].deck = <<>>
    /\ gameState[u].hand # <<>>
    /\ Len(gameState[u].graveyard) >= 3

\* C9: each side's hand holds at most 6 cards, whatever opening draw,
\* per-turn draws and draw-2 ability casts occurred.
C9_HandAtMostSix ==
  \A u \in Users : Len(gameState[u].hand) <= 6

\* The draw-2 ability was cast and the hand stands at its capacity.
C9_Witness ==
  /\ last.kind = "ability"
  /\ AbilityBranch[gameState[last.user].champion] = "draw"
  /\ Len(gameState[last.user].hand) = 6

\* C10: an end-turn gives the side becoming active maxMana = min(10, new
\* turn number), mana = maxMana, shield 0, abilityUsed false and one drawn
\* card (if the deck and the hand allow it), and leaves its other fields and
\* every field of the other side unchanged.
C10_EndTurnFrame ==
  [][last'.kind = "endTurn" =>
       LET active == IF gameState.isPlayerTurn THEN "opponent" ELSE "player"
           before == gameState[active]
           after == gameState'[active]
           k == IF Len(before.deck) > 0 /\ Len(before.hand) < 6 THEN 1 ELSE 0
       IN  /\ after.maxMana = Min(10, gameState'.turn)
           /\ after.mana = after.maxMana
           /\ after.shield = 0
           /\ after.abilityUsed = FALSE
           /\ after.hand = before.hand \o SubSeq(before.deck, 1, k)
           /\ after.deck = SubSeq(before.deck, k + 1, Len(before.deck))
           /\ after.health = before.health
           /\ after.maxHealth = before.maxHealth
           /\ after.graveyard = before.graveyard
           /\ after.champion = before.champion
           /\ gameState'[Other(active)] = gameState[Other(active)]]_vars

\* A turn was ended while the side that ended it keeps a shield.
C10_Witness ==
  /\ last.kind = "endTurn"
  /\ gameState[last.user].shield > 0
  /\ gameState[Other(last.user)].shield = 0

\* C11: the battle starts in the player's turn with turn = 1; an end-turn
\* in the player's turn hands over to the opponent with the turn number
\* unchanged, an end-turn in the opponent's turn hands over to the player
\* with the turn number increased by exactly 1; no other step changes the
\* turn number or the whose-turn flag, so the turn number never decreases.
C11_TurnOrder ==
  /\ (gameState.isPlayerTurn /\ gameState.turn = 1)
  /\ [][IF last'.kind = "endTurn"
        THEN /\ gameState'.isPlayerTurn = ~gameState.isPlayerTurn
             /\ gameState'.turn = IF gameState.isPlayerTurn
                                  THEN gameState.turn
                                  ELSE gameState.turn + 1
        ELSE /\ gameState'.isPlayerTurn = gameState.isPlayerTurn
             /\ gameState'.turn = gameState.turn]_vars

\* The opponent has handed the turn back and the second turn has begun.
C11_Witness ==
  /\ last.kind = "endTurn"
  /\ last.user = "opponent"
  /\ gameState.isPlayerTurn
  /\ gameState.turn = 2

\* The side whose turn it is.
ActiveSide == IF gameState.isPlayerTurn THEN "player" ELSE "opponent"

\* C12: a play-card intent of the active side for a card of its hand whose
\* cost exceeds its current mana leaves the whole battle state unchanged,
\* however often it is repeated.
C12_UnaffordablePlayIsNoOp ==
  [][(/\ last'.kind = "pay"
      /\ last'.user = ActiveSide
      /\ last'.card \in Range(gameState[last'.user].hand)
      /\ CARDS[last'.card].cost > gameState[last'.user].mana)
       => gameState' = gameState]_vars

\* C13: an ability cast by a side whose mana is below the ability cost or
\* whose abilityUsed flag is already true leaves the entire battle state
\* unchanged: mana, abilityUsed, health, shield, hands, decks, battle log.
C13_RejectedCastIsNoOp ==
  [][\A user \in Users :
       (/\ last'.kind \in {"ability", "abilityRejected"}
        /\ last'.user = user
        /\ \/ gameState[user].mana < CHAMPIONS[gameState[user].champion].ability.cost
           \/ gameState[user].abilityUsed)
         => gameState' = gameState]_vars

\* A cast was turned down although the side could pay for it: the ability
\* had already been used in this turn.
C13_Witness ==
  /\ last.kind = "abilityRejected"
  /\ gameState[last.user].abilityUsed
  /\ gameState[last.user].mana >= CHAMPIONS[gameState[last.user].champion].ability.cost

\* C14: each intent resolves atomically: while a card play has paid its
\* cost and not yet applied its effects, no end-turn, ability cast or other
\* card play is applied to the battle state.
C14_IntentsAtomic ==
  [][pending # {} => last'.kind \notin {"pay", "ability", "endTurn"}]_vars

\* C15: a play-card intent naming a card that is not in the acting side's
\* hand is a no-op: the graveyard does not gain the card and mana is not
\* deducted.
C15_PlayOfAbsentCardIsNoOp ==
  [][(last'.kind = "pay" /\ last'.card \notin Range(gameState[last'.user].hand))
       => gameState' = gameState]_vars

\* C16: a play-card or use-ability intent for the side that is not the
\* active one leaves the battle state unchanged.
C16_OutOfTurnIntentIsNoOp ==
  [][(/\ last'.kind \in {"pay", "ability", "abilityRejected"}
      /\ last'.user # ActiveSide)
       => gameState' = gameState]_vars

\* C17: each side's ability takes effect at most once per turn of that
\* side: a cast that changes the state finds abilityUsed false and leaves it
\* true, and the flag falls back to false only in the end-turn that starts
\* that side's next turn.
C17_AbilityOncePerTurn ==
  [][\A u \in Users :
       /\ (last'.kind = "ability" /\ last'.user = u /\ gameState' # gameState)
            => (~gameState[u].abilityUsed /\ gameState'[u].abilityUsed)
       /\ (gameState[u].abilityUsed /\ ~gameState'[u].abilityUsed)
            => (/\ last'.kind = "endTurn"
                /\ ActiveSide = Other(u)
                /\ ActiveSide' = u)]_vars

\* The active side cast its ability and a second cast in the same turn was
\* turned down.
C17_Witness ==
  /\ last.kind = "abilityRejected"
  /\ last.user = ActiveSide
  /\ gameState[ActiveSide].abilityUsed
  /\ calls = 2

\* The policy stands at a decision with no winner set and holds an
\* affordable card whose estimated damage reaches the human's health.
LethalCardAffordable ==
  /\ phase = "battle"
  /\ aiPc = "loop"
  /\ gameState.winner = "none"
  /\ \E c \in Range(playableCards(gameState)) :
       Estimate[c].estimatedDmg >= gameState.player.health

\* C18: at a decision of the opponent policy where some affordable hand
\* card has estimated damage >= the human's health, the policy selects a
\* lethal-scored action: a card with estimated damage >= that health, or
\* the 3-damage ability when 3 >= that health; it neither ends the turn nor
\* picks another action.
C18_LethalSelection ==
  LethalCardAffordable =>
    LET action == runAiTurn(gameState)
    IN  \/ /\ action.type = "card"
           /\ Estimate[action.card].estimatedDmg >= gameState.player.health
        \/ /\ action.type = "ability"
           /\ ScoredAbility[gameState.opponent.champion] = "damage"
           /\ 3 >= gameState.player.health

\* The policy has just played a card lethal to a living human although it
\* could afford a costlier card of its hand that is not lethal.
C18_Witness ==
  /\ last.kind = "pay"
  /\ last.user = "opponent"
  /\ gameState.player.health > 0
  /\ Estimate[last.card].estimatedDmg >= gameState.player.health
  /\ \E c \in Range(gameState.opponent.hand) :
       /\ CARDS[c].cost > CARDS[last.card].cost
       /\ CARDS[c].cost <= gameState.opponent.mana + CARDS[last.card].cost
       /\ Estimate[c].estimatedDmg < gameState.player.health

\* C19: every opponent-policy turn terminates: in single-player mode, once
\* control has passed to the opponent the policy makes finitely many plays
\* and casts and then ends the turn, exactly once (the end-turn leaves the
\* loop and hands control to the player), so control returns to the player
\* unless the finished battle is left first.
C19_AiTurnTerminates ==
  /\ [][(last'.kind = "endTurn" /\ last'.user = "opponent")
          => /\ aiPc = "loop" /\ aiPc' = "idle"
             /\ ~gameState.isPlayerTurn /\ gameState'.isPlayerTurn]_vars
  /\ (~isOnline /\ ~gameState.isPlayerTurn /\ aiPc # "idle" /\ gameState.turn < MaxTurn)
       ~> (gameState.isPlayerTurn \/ phase = "unmounted")

\* In single-player mode the policy played a card, cast its ability and
\* then handed the turn back.
C19_Witness ==
  /\ ~isOnline
  /\ last.kind = "endTurn"
  /\ last.user = "opponent"
  /\ aiPc = "idle"
  /\ gameState.opponent.abilityUsed
  /\ gameState.opponent.graveyard # <<>>
  /\ gameState.opponent.mana < gameState.opponent.maxMana

\* C20: in remote-peer (online) mode the opponent decision policy is never
\* invoked: its loop never runs, so it generates no card play, ability cast
\* or end-turn for the opponent side.
C20_PolicyOffOnline ==
  isOnline => (aiPc = "idle" /\ ~isAiProcessing)

\* C26: playing a card that is in the acting side's hand removes exactly
\* that card from the hand (the other cards keep their order), appends it as
\* the last element of that side's graveyard and reduces that side's mana by
\* exactly the card's cost; the deck of the acting side and the hand, deck
\* and graveyard of the other side are unchanged.
C26_PlayMovesCardAndPays ==
  [][(last'.kind = "pay" /\ last'.card \in Range(gameState[last'.user].hand)) =>
       LET user == last'.user
           card == last'.card
           other == Other(user)
           before == gameState[user]
           after == gameState'[user]
       IN  /\ Len(after.hand) = Len(before.hand) - 1
           /\ after.hand = SelectSeq(before.hand, LAMBDA c : c # card)
           /\ after.graveyard = Append(before.graveyard, card)
           /\ after.mana = before.mana - CARDS[card].cost
           /\ after.deck = before.deck
           /\ gameState'[other].hand = gameState[other].hand
           /\ gameState'[other].deck = gameState[other].deck
           /\ gameState'[other].graveyard = gameState[other].graveyard]_vars

\* A card with a positive cost was just played from a hand of several cards
\* onto a graveyard that already held a card.
C26_Witness ==
  /\ last.kind = "pay"
  /\ CARDS[last.card].cost > 0
  /\ Len(gameState[last.user].graveyard) >= 2
  /\ gameState[last.user].graveyard[Len(gameState[last.user].graveyard)] = last.card
  /\ Len(gameState[last.user].hand) >= 2
  /\ last.card \notin Range(gameState[last.user].hand)
  /\ gameState[last.user].mana >= 0

\* The deltas of a card by the type-plus-keyword rule: damage for Attack and
\* Minion, for a Spell whose lower-cased description contains "dmg" and for
\* a Weapon whose description contains "Atk"; heal, shield and mana gain for
\* a Spell or Weapon whose description contains "Heal", "Shield", "Mana".
RuleDeltas ==
  [c \in CardIds |->
     LET card == CARDS[c]
         spellOrWeapon == card.type \in {"Spell", "Weapon"}
         gives(keyword) == spellOrWeapon /\ includes(card.description, keyword)
     IN  [damage |-> IF \/ card.type \in {"Attack", "Minion"}
                        \/ card.type = "Spell"
                             /\ includes(toLowerCase(card.description), <<"d","m","g">>)
                        \/ card.type = "Weapon"
                             /\ includes(card.description, <<"A","t","k">>)
                     THEN card.value ELSE 0,
          heal |-> IF gives(<<"H","e","a","l">>) THEN card.value ELSE 0,
          shield |-> IF gives(<<"S","h","i","e","l","d">>) THEN card.value ELSE 0,
          manaGain |-> IF gives(<<"M","a","n","a">>) THEN card.value ELSE 0]]

\* C27: for every card of the catalog the resolver applies the deltas of the
\* type-plus-keyword rule: the target loses the rule's damage from shield
\* plus health (as far as they reach), the acting side gains the rule's heal
\* (up to maxHealth), the rule's shield and the rule's mana gain (up to 10),
\* and nothing else of health, shield or mana changes.
C27_ResolverFollowsRule ==
  [][last'.kind = "resolve" =>
       LET user == last'.user
           rule == RuleDeltas[last'.card]
           active == gameState[user]
           target == gameState[Other(user)]
           activeAfter == gameState'[user]
           targetAfter == gameState'[Other(user)]
       IN  /\ (target.shield + target.health) - (targetAfter.shield + targetAfter.health)
                 = Min(rule.damage, target.shield + target.health)
           /\ activeAfter.health = Min(active.maxHealth, active.health + rule.heal)
           /\ activeAfter.shield = active.shield + rule.shield
           /\ activeAfter.mana = Min(10, active.mana + rule.manaGain)
           /\ targetAfter.mana = target.mana]_vars

\* A Weapon card was resolved and took its value from the target, which
\* is still standing.
C27_Witness ==
  /\ last.kind = "resolve"
  /\ CARDS[last.card].type = "Weapon"
  /\ gameState[Other(last.user)].health = MaxPolicyHealth - CARDS[last.card].value
  /\ gameState[Other(last.user)].shield = 0
  /\ gameState.winner = "none"

\* A step the opponent policy takes on its own side during its turn.
PolicyStep ==
  /\ ~gameState.isPlayerTurn
  /\ last'.user = "opponent"
  /\ last'.kind \in {"pay", "resolve", "ability"}

PolicyMeasure(current) ==
  Len(current.opponent.hand) + (IF current.opponent.abilityUsed THEN 0 ELSE 1)

C29_AbilityDamageShieldFirst ==
  [][(last'.kind = "ability" /\ AbilityBranch[gameState[last'.user].champion] = "damage") =>
       LET target == gameState[Other(last'.user)]
           targetAfter == gameState'[Other(last'.user)]
       IN  IF target.shield >= 3
           THEN /\ targetAfter.shield = target.shield - 3
                /\ targetAfter.health = target.health
           ELSE /\ targetAfter.shield = 0
                /\ targetAfter.health = Max(0, target.health - (3 - target.shield))]_vars

\* The number of cards the step just taken draws for side u: 3 at the
\* opening, 1 for the side an end-turn makes active, 2 for a draw ability.
DrawCount(u) ==
  IF last'.kind = "mount" THEN 3
  ELSE IF last'.kind = "endTurn" /\ u = ActiveSide' THEN 1
  ELSE IF /\ last'.kind = "ability"
          /\ last'.user = u
          /\ AbilityBranch[gameState[u].champion] = "draw" THEN 2
  ELSE 0

\* C30: a draw of n cards moves exactly the first k = min(n, deck size,
\* 6 - hand size) cards of the deck, in deck order, to the end of the hand;
\* the rest of the deck keeps its order, and a forfeited draw takes no card
\* from the deck and adds none to the graveyard.
C30_DrawTakesFront ==
  [][\A u \in Users :
       DrawCount(u) > 0 =>
         LET deck == gameState[u].deck
             hand == gameState[u].hand
             k == Min(DrawCount(u), Min(Len(deck), 6 - Len(hand)))
         IN  /\ gameState'[u].hand = hand \o SubSeq(deck, 1, k)
             /\ gameState'[u].deck = SubSeq(deck, k + 1, Len(deck))
             /\ gameState'[u].graveyard = gameState[u].graveyard]_vars

\* An end-turn found the hand of the side becoming active full: its draw
\* was forfeited and the two undrawn cards are still in the deck.
C30_Witness ==
  /\ last.kind = "endTurn"
  /\ gameState.turn >= 5
  /\ Len(gameState[ActiveSide].hand) = 6
  /\ Len(gameState[ActiveSide].deck) = 2
  /\ gameState[ActiveSide].graveyard = <<>>

\* The wire message kind of a human intent.
MessageKind(kind) ==
  CASE kind = "pay" -> "PLAY_CARD"
    [] kind = "ability" -> "USE_ABILITY"
    [] kind = "endTurn" -> "END_TURN"

\* C21: in online mode every intent of the local human (play card, use
\* ability, end turn) is sent over the connection as one message of the
\* matching kind, for the remote engine to replay on the opposite side.
C21_IntentsAreSent ==
  [][(isOnline /\ last'.user = "player" /\ last'.kind \in {"pay", "ability", "endTurn"}) =>
       /\ Len(sent') = Len(sent) + 1
       /\ sent'[Len(sent')].type = MessageKind(last'.kind)]_vars

\* C22: in online mode the opponent of the battle is the champion the
\* remote peer's HANDSHAKE named: the opponent's champion in the arena's
\* initial state equals the champion App recorded from the handshake.
C22_OpponentFromHandshake ==
  (phase = "created" /\ isOnline) => gameState.opponent.champion = app.opponentChampion

\* C23: in online mode the battle view is shown only after a remote
\* HANDSHAKE was received: whenever the view is BATTLE in online mode, some
\* connection has delivered a handshake and its champion is recorded.
C23_BattleAfterHandshake ==
  (app.view = "BATTLE" /\ app.isOnlineMode) =>
     /\ app.opponentChampion # "none"
     /\ \E i \in DOMAIN peers : peers[i].heard

\* The online battle is running: entered from the lobby after the handshake.
C23_Witness ==
  /\ app.view = "BATTLE"
  /\ app.isOnlineMode
  /\ last.kind = "mount"
  /\ phase = "battle"
  /\ isOnline
  /\ app.opponentChampion # "none"
  /\ app.connection # 0

\* C24: a connection error while the online lobby is shown (error of the
\* host's peer, of the joining peer, or of the connection) leaves a
\* non-empty error message on display and the lobby status IDLE.
C24_ErrorShownAndIdle ==
  [][(last'.kind \in {"peerError", "connError"} /\ lobby.mode # "none") =>
       /\ lobby'.error # ""
       /\ lobby'.status = "IDLE"]_vars

\* Side u has a card play in flight: cost paid, effects not applied yet.
InFlight(u) == \E p \in pending : p.user = u

\* C25: the commentary call never blocks the game: once the cost of a card
\* is paid, the card's effects and the win check are eventually applied,
\* whatever the commentary call does and however long it takes.
C25_PaidCardGetsResolved ==
  \A u \in Users : InFlight(u) ~> ~InFlight(u)

\* C31: an accepted ability cast deducts exactly the ability's mana cost,
\* sets abilityUsed and applies exactly one effect, the one of the champion's
\* ability: 3 damage to the other side, or 4 shield, or 3 health up to
\* maxHealth, or 2 cards drawn by the draw rule; the battle log gains the
\* line of the cast and no other field of either side or of the battle
\* changes.
C31_CastAppliesOneArchetype ==
  [][(last'.kind = "ability" /\ gameState' # gameState) =>
       LET user == last'.user
           before == gameState[user]
           after == gameState'[user]
           target == gameState[Other(user)]
           targetAfter == gameState'[Other(user)]
           branch == AbilityBranch[before.champion]
           k == IF branch = "draw" THEN Min(2, Min(Len(before.deck), 6 - Len(before.hand)))
                ELSE 0
       IN  /\ branch \in {"damage", "shield", "heal", "draw"}
           /\ after.mana = before.mana - CHAMPIONS[before.champion].ability.cost
           /\ after.abilityUsed /\ ~before.abilityUsed
           /\ LET loss == (target.shield + target.health)
                             - (targetAfter.shield + targetAfter.health)
              IN  IF branch = "damage"
                  THEN loss <= 3 /\ (loss = 3 \/ targetAfter.health = 0)
                  ELSE loss = 0
           /\ targetAfter.shield <= target.shield
           /\ targetAfter.health <= target.health
           /\ after.shield = before.shield + (IF branch = "shield" THEN 4 ELSE 0)
           /\ after.health = IF branch = "heal"
                             THEN Min(before.maxHealth, before.health + 3)
                             ELSE before.health
           /\ after.hand = before.hand \o SubSeq(before.deck, 1, k)
           /\ after.deck = SubSeq(before.deck, k + 1, Len(before.deck))
           /\ after = [before EXCEPT !.mana = after.mana, !.abilityUsed = TRUE,
                                     !.shield = after.shield, !.health = after.health,
                                     !.hand = after.hand, !.deck = after.deck]
           /\ targetAfter = [target EXCEPT !.shield = targetAfter.shield,
                                           !.health = targetAfter.health]
           /\ gameState' = [gameState EXCEPT ![user] = after,
                                             ![Other(user)] = targetAfter,
                                             !.battleLog = gameState.battleLog + 1]]_vars

\* The healing ability was cast by a side 4 below its maximal health, which
\* is now 1 below it and has paid the cost.
C31_Witness ==
  /\ last.kind = "ability"
  /\ AbilityBranch[gameState[last.user].champion] = "heal"
  /\ gameState[last.user].abilityUsed
  /\ gameState[last.user].health = gameState[last.user].maxHealth - 1
  /\ gameState[last.user].mana <= Min(10, MaxTurn) - 3

\* C32: the opponent policy ends its turn only when a winner is set or when
\* no hand card is affordable and the ability is unavailable: as long as a
\* hand card has cost <= mana or the ability is usable the policy applies an
\* action, also when every available action has a negative score.
C32_EndsOnlyWhenNothingAvailable ==
  [][(last'.kind = "endTurn" /\ last'.user = "opponent") =>
       \/ gameState.winner # "none"
       \/ /\ playableCards(gameState) = <<>>
          /\ ~canUseAbility(gameState)]_vars

\* The policy has just played a heal card at full health, whose score was
\* negative, with no winner set.
C32_Witness ==
  /\ last.kind = "pay"
  /\ last.user = "opponent"
  /\ gameState.winner = "none"
  /\ Estimate[last.card].hasHeal
  /\ gameState.opponent.health = gameState.opponent.maxHealth
  /\ cardScore(last.card, [gameState EXCEPT
                             !.opponent.mana = @ + CARDS[last.card].cost]) < 0

\* C33: every action the opponent policy applies is legal when it is
\* applied: a card it plays is in the opponent's hand and costs at most the
\* opponent's mana, the ability is cast only with abilityUsed false and
\* mana >= the ability's cost; so the opponent's mana is never negative
\* during its turn.
C33_PolicyActionsLegal ==
  [][/\ (last'.kind = "pay" /\ last'.user = "opponent") =>
          /\ last'.card \in Range(gameState.opponent.hand)
          /\ CARDS[last'.card].cost <= gameState.opponent.mana
     /\ (last'.kind = "ability" /\ last'.user = "opponent") =>
          /\ ~gameState.opponent.abilityUsed
          /\ gameState.opponent.mana
               >= CHAMPIONS[gameState.opponent.champion].ability.cost
          /\ gameState' # gameState
     /\ ~gameState'.isPlayerTurn => gameState'.opponent.mana >= 0]_vars

\* The policy has just spent its last mana on a card and keeps a card in
\* its hand that it could not afford.
C33_Witness ==
  /\ last.kind = "pay"
  /\ last.user = "opponent"
  /\ CARDS[last.card].cost > 0
  /\ gameState.opponent.mana = 0
  /\ \E c \in Range(gameState.opponent.hand) : CARDS[c].cost > CARDS[last.card].cost

\* The highest score among the cards the opponent can afford.
BestCardScore(current) ==
  LET scores == {cardScore(c, current) : c \in Range(playableCards(current))}
  IN  CHOOSE v \in scores : \A w \in scores : v >= w

\* The battle as it stood before the opponent paid for `card`.
BeforePay(current, card) ==
  [current EXCEPT !.opponent.mana = @ + CARDS[card].cost,
                  !.opponent.hand = Append(@, card),
                  !.opponent.graveyard = SubSeq(@, 1, Len(@) - 1)]

\* C34: at a decision where both an affordable card and the ability are
\* available, the opponent policy casts the ability only if the ability's
\* score is strictly greater than the best card score; on a tie, and when
\* the ability scores less, it plays a card of the best score.
C34_AbilityOnlyIfStrictlyBetter ==
  [][(/\ last'.user = "opponent"
      /\ last'.kind \in {"pay", "ability"}
      /\ playableCards(gameState) # <<>>
      /\ canUseAbility(gameState)) =>
       IF last'.kind = "ability"
       THEN abilityScore(gameState) > BestCardScore(gameState)
       ELSE /\ abilityScore(gameState) <= BestCardScore(gameState)
            /\ cardScore(last'.card, gameState) = BestCardScore(gameState)]_vars

\* The policy has just played a card whose score equalled the score of the
\* ability it could have cast.
C34_Witness ==
  /\ last.kind = "pay"
  /\ last.user = "opponent"
  /\ canUseAbility(BeforePay(gameState, last.card))
  /\ abilityScore(BeforePay(gameState, last.card))
       = cardScore(last.card, BeforePay(gameState, last.card))

\* The score of section 4.3 for a card: cost x 10, the lethal bonus, the
\* defensive bonus, the penalty for healing at full health and the bonus
\* for exhausting the mana; `aggression` is added on top for a card with
\* estimated damage played against a human below 12 health.
ScoreOf(c, current, aggression) ==
  LET opp == current.opponent
      human == current.player
      healing == Effects[c].heal > 0
      shielding == Effects[c].shield > 0
  IN  CARDS[c].cost * 10
      + (IF Estimate[c].estimatedDmg >= human.health THEN 99999 ELSE 0)
      + (IF opp.health * 100 < opp.maxHealth * 35 /\ (healing \/ shielding) THEN 500 ELSE 0)
      - (IF healing /\ opp.health = opp.maxHealth THEN 1000 ELSE 0)
      + (IF opp.mana = CARDS[c].cost THEN 50 ELSE 0)
      + (IF human.health < 12 /\ Estimate[c].estimatedDmg > 0 THEN aggression ELSE 0)

\* The card the policy has just paid for has the highest score among the
\* cards it could afford.
PlayedCardMaximises(aggression) ==
  (last'.kind = "pay" /\ last'.user = "opponent") =>
     \A c \in Range(playableCards(gameState)) :
        ScoreOf(last'.card, gameState, aggression) >= ScoreOf(c, gameState, aggression)

\* C35 as stated: among the affordable cards the policy plays one that
\* maximises cost x 10 + lethal bonus + defensive bonus - penalty for a heal
\* card at full health + bonus for exhausting the mana; no other term
\* influences the choice.
C35_MaximisesStatedScore ==
  [][PlayedCardMaximises(0)]_vars

\* C35 as amended: the score has one more term, 100 for a card with
\* estimated damage > 0 while the human's health is below 12; the policy
\* plays a card that maximises the score with that term.
C35_MaximisesScoreWithAggression ==
  [][PlayedCardMaximises(100)]_vars

\* Below 35% of its health the policy has just played a heal card although
\* it could afford a costlier card.
C35_Witness ==
  /\ last.kind = "pay"
  /\ last.user = "opponent"
  /\ Effects[last.card].heal > 0
  /\ gameState.opponent.health * 100 < gameState.opponent.maxHealth * 35
  /\ \E c \in Range(gameState.opponent.hand) :
       /\ CARDS[c].cost > CARDS[last.card].cost
       /\ CARDS[c].cost <= gameState.opponent.mana + CARDS[last.card].cost

\* C36: winner and health agree in every reachable state: winner =
\* 'opponent' implies the player's health is 0 and winner = 'player' implies
\* the opponent's health is 0; no later heal, ability cast or end-turn makes
\* the declared loser's health positive.
C36_WinnerMatchesHealth ==
  /\ gameState.winner = "opponent" => gameState.player.health = 0
  /\ gameState.winner = "player" => gameState.opponent.health = 0

\* C37: every card of the catalog, when played, produces at least one
\* non-zero delta (damage, heal, shield or mana gain) equal to its value: no
\* card has its cost deducted while applying no effect.
C37_EveryCardHasAnEffect ==
  [][last'.kind = "resolve" =>
       LET e == Effects[last'.card]
           value == CARDS[last'.card].value
       IN  /\ value > 0
           /\ value \in {e.damage, e.heal, e.shield, e.manaGain}]_vars

\* C38: for every card of the catalog the damage the opponent policy
\* estimates for lethal detection is the damage the effect resolver assigns
\* to the card when it is played: resolving a card of the opponent takes
\* the estimated damage from the human's shield and health, as far as they
\* reach.
C38_EstimateMatchesResolver ==
  [][(last'.kind = "resolve" /\ last'.user = "opponent") =>
       LET target == gameState[Other(last'.user)]
           targetAfter == gameState'[Other(last'.user)]
       IN  (target.shield + target.health) - (targetAfter.shield + targetAfter.health)
             = Min(Estimate[last'.card].estimatedDmg, target.shield + target.health)]_vars

\* C39: at most one opponent-policy loop is active at any time: a loop is
\* started only when none is running; every card play and ability cast the
\* policy issues is applied while the whose-turn flag says it is the
\* opponent's turn; and control passes back to the player only through the
\* end-turn with which the policy leaves its loop.
C39_OnePolicyLoopInItsTurn ==
  [][/\ aiEffectFires(gameState, gameState', isAiProcessing) =>
          (aiPc = "idle" /\ aiPc' = "loop")
     /\ (aiPc = "idle") = (~isAiProcessing)
     /\ (last'.user = "opponent" /\ last'.kind \in {"pay", "ability", "resolve"}) =>
          /\ ~gameState.isPlayerTurn /\ ~gameState'.isPlayerTurn
          /\ aiPc # "idle"
     /\ (~gameState.isPlayerTurn /\ gameState'.isPlayerTurn) =>
          /\ last'.kind = "endTurn" /\ last'.user = "opponent"
          /\ aiPc = "loop" /\ aiPc' = "idle"]_vars

\* A second loop of the policy has been started, after the first one played
\* a card and handed the turn back.
C39_Witness ==
  /\ last.kind = "endTurn"
  /\ last.user = "player"
  /\ aiPc = "loop"
  /\ isAiProcessing
  /\ gameState.turn = 2
  /\ gameState.opponent.graveyard # <<>>
  /\ pending = {}

\* C40: after the user cancels out of the online lobby (view back to LOBBY),
\* the view does not change to BATTLE unless by a further action of the
\* user, even when a HANDSHAKE was received just before the cancel: the step
\* that follows a cancel and enters BATTLE is a click of the user, never the
\* timer of the data handler.
C40_NoBattleAfterCancel ==
  [][(last.kind = "cancel" /\ app.view = "LOBBY" /\ app'.view = "BATTLE") =>
       last'.kind = "deckConfirm"]_vars

====
